---------------------------- MODULE Spec2Model ----------------------------
(***************************************************************************)
(* A model of tools/javadoc2mkdocs.py: the Javadoc comment parser, the     *)
(* inline-markup converter, the tag and index renderers and the writing    *)
(* loop of generate_docs.                                                  *)
(*                                                                         *)
(* Text is a sequence of one-character strings, so that every regular      *)
(* expression and string method of the source is computed character by     *)
(* character.  A regular-expression substitution is a left-to-right scan:  *)
(* the text up to the next match is copied, the replacement of the match   *)
(* is emitted and the scan resumes after the match.                        *)
(***************************************************************************)
EXTENDS Integers, Sequences, FiniteSets, TLC

VARIABLES
    pc,            \* position of the program under analysis
    raw_comment,   \* _parse_javadoc_block: the raw comment block (with its source lines)
    parsed,        \* _parse_javadoc_block: what the call returned or raised
    text_in,       \* _convert_description: the text given (with the pieces it is made of)
    text_out,      \* _convert_description(text_in)
    text_again,    \* _convert_description(text_out)
    tags_in,       \* _render_tags: the arguments tags and skip
    rendered,      \* _render_tags(tags, skip)
    index_in,      \* render_package_index: the arguments package and classes
    index_out,     \* render_package_index(package, classes)
    src_tree,      \* generate_docs: the .java files under src_root
    java_files,    \* generate_docs: collect_java_files(src_root, base_pkg)
    file_at,       \* generate_docs: the loop index of the loop it is in
    all_docs,      \* generate_docs: the ClassDocs retained so far
    skipped,       \* generate_docs: the counter of skipped files
    out_dirs,      \* the directories at and under out_dir (paths relative to it)
    out_files,     \* the files under out_dir: path |-> content
    java_file,     \* parse_java_file: the file at path (with the pieces it is written from)
    class_doc,     \* parse_java_file(path)
    page_in,       \* render_class_page: the argument doc
    page_out,      \* render_class_page(doc)
    nav_in,        \* generate_nav_yaml: all_docs in two orders, and out_dir_name
    nav_out        \* the listings, the indexes and the written files of both orders

parseVars == <<raw_comment, parsed>>
convertVars == <<text_in, text_out, text_again>>
renderVars == <<tags_in, rendered>>
indexVars == <<index_in, index_out>>
genVars == <<src_tree, java_files, file_at, all_docs, skipped, out_dirs, out_files>>
fileVars == <<java_file, class_doc>>
pageVars == <<page_in, page_out>>
navVars == <<nav_in, nav_out>>
vars == <<pc, parseVars, convertVars, renderVars, indexVars, genVars, fileVars, pageVars, navVars>>
notParse == <<convertVars, renderVars, indexVars, genVars, fileVars, pageVars, navVars>>
notConvert == <<parseVars, renderVars, indexVars, genVars, fileVars, pageVars, navVars>>
notRender == <<parseVars, convertVars, indexVars, genVars, fileVars, pageVars, navVars>>
notIndex == <<parseVars, convertVars, renderVars, genVars, fileVars, pageVars, navVars>>
notGen == <<parseVars, convertVars, renderVars, indexVars, fileVars, pageVars, navVars>>
notFile == <<parseVars, convertVars, renderVars, indexVars, genVars, pageVars, navVars>>
notPage == <<parseVars, convertVars, renderVars, indexVars, genVars, fileVars, navVars>>
notNav == <<parseVars, convertVars, renderVars, indexVars, genVars, fileVars, pageVars>>

\* the variables of a function that is not under analysis
ParseIdle == raw_comment = "idle" /\ parsed = "idle"
ConvertIdle == text_in = "idle" /\ text_out = "idle" /\ text_again = "idle"
RenderIdle == tags_in = "idle" /\ rendered = "idle"
IndexIdle == index_in = "idle" /\ index_out = "idle"
GenIdle ==
    /\ src_tree = "idle" /\ java_files = "idle" /\ file_at = "idle" /\ all_docs = "idle"
    /\ skipped = "idle" /\ out_dirs = "idle" /\ out_files = "idle"
FileIdle == java_file = "idle" /\ class_doc = "idle"
PageIdle == page_in = "idle" /\ page_out = "idle"
NavIdle == nav_in = "idle" /\ nav_out = "idle"
NotParseIdle == ConvertIdle /\ RenderIdle /\ IndexIdle /\ GenIdle /\ FileIdle /\ PageIdle /\ NavIdle
NotConvertIdle == ParseIdle /\ RenderIdle /\ IndexIdle /\ GenIdle /\ FileIdle /\ PageIdle /\ NavIdle
NotRenderIdle == ParseIdle /\ ConvertIdle /\ IndexIdle /\ GenIdle /\ FileIdle /\ PageIdle /\ NavIdle
NotIndexIdle == ParseIdle /\ ConvertIdle /\ RenderIdle /\ GenIdle /\ FileIdle /\ PageIdle /\ NavIdle
NotGenIdle == ParseIdle /\ ConvertIdle /\ RenderIdle /\ IndexIdle /\ FileIdle /\ PageIdle /\ NavIdle
NotFileIdle == ParseIdle /\ ConvertIdle /\ RenderIdle /\ IndexIdle /\ GenIdle /\ PageIdle /\ NavIdle
NotPageIdle == ParseIdle /\ ConvertIdle /\ RenderIdle /\ IndexIdle /\ GenIdle /\ FileIdle /\ NavIdle
NotNavIdle == ParseIdle /\ ConvertIdle /\ RenderIdle /\ IndexIdle /\ GenIdle /\ FileIdle /\ PageIdle

---------------------------------------------------------------------------
(* Characters and the str methods the source uses.                         *)

NL == "\n"
\* the grave accent (a character a TLA+ string cannot hold)
BT == "GRAVE"
SP == " "
Whitespace == {" ", "\n", "\t"}
LowerLetters == {"a","b","c","d","e","f","g","h","i","j","k","l","m",
                 "n","o","p","q","r","s","t","u","v","w","x","y","z"}
UpperToLower == [c \in {"A","B","C","D","E","F","G","H","I","J","K","L","M",
                        "N","O","P","Q","R","S","T","U","V","W","X","Y","Z"} |->
                   CASE c = "A" -> "a" [] c = "B" -> "b" [] c = "C" -> "c" [] c = "D" -> "d"
                     [] c = "E" -> "e" [] c = "F" -> "f" [] c = "G" -> "g" [] c = "H" -> "h"
                     [] c = "I" -> "i" [] c = "J" -> "j" [] c = "K" -> "k" [] c = "L" -> "l"
                     [] c = "M" -> "m" [] c = "N" -> "n" [] c = "O" -> "o" [] c = "P" -> "p"
                     [] c = "Q" -> "q" [] c = "R" -> "r" [] c = "S" -> "s" [] c = "T" -> "t"
                     [] c = "U" -> "u" [] c = "V" -> "v" [] c = "W" -> "w" [] c = "X" -> "x"
                     [] c = "Y" -> "y" [] c = "Z" -> "z"]
UpperLetters == DOMAIN UpperToLower
DigitChars == {"0","1","2","3","4","5","6","7","8","9"}
\* \w of the re module
WordChars == LowerLetters \cup UpperLetters \cup DigitChars \cup {"_"}

IsSpace(c) == c \in Whitespace
IsWord(c) == c \in WordChars
LowerChar(c) == IF c \in UpperLetters THEN UpperToLower[c] ELSE c
\* str.lower()
Lower(s) == [k \in 1..Len(s) |-> LowerChar(s[k])]

SetMin(S) == CHOOSE m \in S : \A n \in S : m <= n
SetMax(S) == CHOOSE m \in S : \A n \in S : m >= n
\* the least element of S, d when S is empty
MinOr(S, d) == IF S = {} THEN d ELSE SetMin(S)

\* s[i:] with i a 1-based index
From(s, i) == SubSeq(s, i, Len(s))
\* the pattern p stands at index i of s
MatchAt(s, i, p) ==
    /\ i >= 1
    /\ i + Len(p) - 1 <= Len(s)
    /\ \A k \in 1..Len(p) : s[i + k - 1] = p[k]
\* the same, ignoring case (re.IGNORECASE; p is lower case)
MatchAtCI(s, i, p) ==
    /\ i >= 1
    /\ i + Len(p) - 1 <= Len(s)
    /\ \A k \in 1..Len(p) : LowerChar(s[i + k - 1]) = p[k]
\* the least index >= i where p stands, 0 when there is none (str.find)
Find(s, p, i) ==
    MinOr({j \in i..(Len(s) - Len(p) + 1) : MatchAt(s, j, p)}, 0)
FindCI(s, p, i) ==
    MinOr({j \in i..(Len(s) - Len(p) + 1) : MatchAtCI(s, j, p)}, 0)
StartsWith(s, p) == MatchAt(s, 1, p)
EndsWith(s, p) == Len(p) <= Len(s) /\ MatchAt(s, Len(s) - Len(p) + 1, p)
\* the first index >= i that holds no whitespace (Len(s)+1 when there is none): \s*
SkipSpace(s, i) ==
    MinOr({j \in i..Len(s) : ~IsSpace(s[j])}, Len(s) + 1)
\* the first index >= i that holds no word character: \w*
SkipWord(s, i) ==
    MinOr({j \in i..Len(s) : ~IsWord(s[j])}, Len(s) + 1)
\* str.strip()
Strip(s) ==
    LET ks == {k \in 1..Len(s) : ~IsSpace(s[k])}
    IN  IF ks = {} THEN <<>> ELSE SubSeq(s, SetMin(ks), SetMax(ks))

RECURSIVE Concat(_)
\* "".join(parts)
Concat(parts) == IF parts = <<>> THEN <<>> ELSE Head(parts) \o Concat(Tail(parts))

RECURSIVE Join(_, _)
\* sep.join(parts)
Join(parts, sep) ==
    IF parts = <<>> THEN <<>>
    ELSE IF Len(parts) = 1 THEN parts[1]
    ELSE parts[1] \o sep \o Join(Tail(parts), sep)

RECURSIVE ReplaceAll(_, _, _, _)
\* s[i:].replace(old, new), old not empty: from one occurrence to the next
ReplaceAll(s, i, old, new) ==
    LET n == Find(s, old, i)
    IN  IF n = 0 THEN From(s, i)
        ELSE SubSeq(s, i, n - 1) \o new \o ReplaceAll(s, n + Len(old), old, new)

RECURSIVE SplitLinesFrom(_, _)
\* s[i:].splitlines(): the lines without their line breaks, no last empty line
SplitLinesFrom(s, i) ==
    IF i > Len(s) THEN <<>>
    ELSE LET n == Find(s, <<NL>>, i)
         IN  IF n = 0 THEN <<From(s, i)>>
             ELSE <<SubSeq(s, i, n - 1)>> \o SplitLinesFrom(s, n + 1)
SplitLines(s) == SplitLinesFrom(s, 1)

\* s.split(None, 1): at most two parts, the first whitespace-delimited token
\* and the rest after the whitespace that follows it; no part for an empty rest
SplitFirstToken(s) ==
    LET \* the token is s[b..e-1], the rest begins at r
        Parts(b, e, r) ==
            IF b > Len(s) THEN <<>>
            ELSE IF r > Len(s) THEN <<SubSeq(s, b, e - 1)>>
            ELSE <<SubSeq(s, b, e - 1), From(s, r)>>
        Token(b, e) == Parts(b, e, SkipSpace(s, e))
        Begin(b) == Token(b, MinOr({j \in b..Len(s) : IsSpace(s[j])}, Len(s) + 1))
    IN  Begin(SkipSpace(s, 1))

\* s.split(sep, 1) for a one-character sep: always one or two parts
SplitOnce(s, sep) ==
    LET n == Find(s, <<sep>>, 1)
    IN  IF n = 0 THEN <<s>> ELSE <<SubSeq(s, 1, n - 1), From(s, n + 1)>>

---------------------------------------------------------------------------
(* _strip_javadoc_stars and _parse_javadoc_block.                          *)

\* Tags that take a leading argument before the description
_ARG_TAGS == { <<"p","a","r","a","m">>, <<"t","h","r","o","w","s">>,
               <<"e","x","c","e","p","t","i","o","n">>, <<"s","e","e">>,
               <<"u","s","e","s">>, <<"p","r","o","v","i","d","e","s">> }

\* ^\s*\*\s? with re.MULTILINE: the index after a match that starts at i, 0 when
\* the pattern does not match at i
LeadingStarEnd(s, i) ==
    LET Star(j) ==
            IF ~(i = 1 \/ s[i - 1] = NL) THEN 0
            ELSE IF j > Len(s) \/ s[j] # "*" THEN 0
            ELSE IF j + 1 <= Len(s) /\ IsSpace(s[j + 1]) THEN j + 2
            ELSE j + 1
    IN  Star(SkipSpace(s, i))

\* _LEADING_STAR_RE.sub("", s): the scan goes from one match to the next
\* match that starts at or after its end
SubLeadingStar(s) ==
    LET Scan(ends) ==
            LET sub[i \in 1..(Len(s) + 1)] ==
                    LET Step(j) == IF j = 0 THEN From(s, i)
                                   ELSE SubSeq(s, i, j - 1) \o sub[ends[j]]
                    IN  Step(MinOr({j \in i..Len(s) : ends[j] # 0}, 0))
            IN  sub[1]
    IN  Scan([j \in 1..Len(s) |-> LeadingStarEnd(s, j)])

_strip_javadoc_stars(raw) ==
    LET Unclosed(r) ==
            Strip(SubLeadingStar(IF EndsWith(r, <<"*","/">>) THEN SubSeq(r, 1, Len(r) - 2) ELSE r))
        Unopened(r) == Unclosed(IF StartsWith(r, <<"/","*","*">>) THEN From(r, 4) ELSE r)
    IN  Unopened(Strip(raw))

\* \n\s*@ : the index after a match that starts at i, 0 when there is none
TagBoundaryEnd(s, i) ==
    IF s[i] # NL THEN 0
    ELSE LET At(j) == IF j <= Len(s) /\ s[j] = "@" THEN j + 1 ELSE 0
         IN  At(SkipSpace(s, i + 1))

\* re.split(r"\n\s*@", s): the pieces between one match and the next match
\* that starts at or after its end
SplitTags(s) ==
    LET Scan(ends) ==
            LET pieces[i \in 1..(Len(s) + 1)] ==
                    LET Step(j) == IF j = 0 THEN <<From(s, i)>>
                                   ELSE <<SubSeq(s, i, j - 1)>> \o pieces[ends[j]]
                    IN  Step(MinOr({j \in i..Len(s) : ends[j] # 0}, 0))
            IN  pieces[1]
    IN  Scan([j \in 1..Len(s) |-> TagBoundaryEnd(s, j)])

\* One pass of the loop body over a chunk: the Tag, or the IndexError that
\* lines[0] / parts[0] raises when the chunk has no first token
ParseChunk(chunk) ==
    LET \* the tag of tag_name with the text that follows the name
        TagOfRemainder(tag_name, remainder, sub) ==
            [raised |-> "", name |-> tag_name,
             arg |-> IF tag_name \in _ARG_TAGS /\ sub # <<>> THEN sub[1] ELSE <<>>,
             text |-> Strip(IF tag_name \in _ARG_TAGS
                              THEN (IF Len(sub) > 1 THEN sub[2] ELSE <<>>)
                              ELSE remainder)]
        \* parts = first.split(None, 1), rest = the lines after the first
        TagOfParts(parts, rest) ==
            IF parts = <<>> THEN [raised |-> "IndexError"]
            ELSE LET WithRemainder(remainder) ==
                         TagOfRemainder(Lower(parts[1]), remainder, SplitFirstToken(remainder))
                 IN  WithRemainder(IF rest # <<>>
                                     THEN Strip((IF Len(parts) > 1 THEN parts[2] ELSE <<>>)
                                                \o <<SP>> \o rest)
                                     ELSE IF Len(parts) > 1 THEN parts[2] ELSE <<>>)
        TagOfLines(lines) ==
            IF lines = <<>> THEN [raised |-> "IndexError"]
            ELSE TagOfParts(SplitFirstToken(Strip(lines[1])),
                            Strip(Join(Tail(lines), <<NL>>)))
    IN  TagOfLines(SplitLines(chunk))

\* (description, tags) of a raw block; raised names the exception that ends
\* the call (the first chunk that raises stops the loop)
_parse_javadoc_block(raw) ==
    LET \* results[k] is the pass of the loop body over tag_split[k + 1]
        Block(tag_split, results) ==
            IF \E k \in DOMAIN results : results[k].raised # ""
              THEN [raised |-> "IndexError", description |-> <<>>, tags |-> <<>>]
              ELSE [raised |-> "",
                    description |-> Strip(tag_split[1]),
                    tags |-> [k \in DOMAIN results |->
                                [name |-> results[k].name, arg |-> results[k].arg,
                                 text |-> results[k].text]]]
        Split(tag_split) ==
            Block(tag_split, [k \in 1..(Len(tag_split) - 1) |-> ParseChunk(tag_split[k + 1])])
    IN  Split(SplitTags(_strip_javadoc_stars(raw)))

---------------------------------------------------------------------------
(* re.sub: the pattern is given by Match(s, i), the match that starts at   *)
(* index i: [end |-> index after the match, out |-> its replacement], or   *)
(* NoMatch.  No pattern of the source matches the empty string.            *)

NoMatch == [end |-> 0, out |-> <<>>]

RegexSub(s, Match(_, _)) ==
    LET \* at[j] is the match that starts at index j
        Scan(at) ==
            LET \* the scan from index i: up to the next match, its replacement,
                \* and on from its end
                sub[i \in 1..(Len(s) + 1)] ==
                    LET Step(j) == IF j = 0 THEN From(s, i)
                                   ELSE SubSeq(s, i, j - 1) \o at[j].out \o sub[at[j].end]
                    IN  Step(MinOr({j \in i..Len(s) : at[j].end # 0}, 0))
            IN  sub[1]
    IN  IF s = <<>> THEN <<>> ELSE Scan([j \in 1..Len(s) |-> Match(s, j)])

\* "open(.*?)close": the lazy group ends at the first close after open;
\* the replacement is pre + group + post
WrappedMatch(s, i, open, close, pre, post) ==
    IF ~MatchAt(s, i, open) THEN NoMatch
    ELSE LET Close(c) ==
                 IF c = 0 THEN NoMatch
                 ELSE [end |-> c + Len(close),
                       out |-> pre \o SubSeq(s, i + Len(open), c - 1) \o post]
         IN  Close(Find(s, close, i + Len(open)))
\* the same under re.IGNORECASE
WrappedMatchCI(s, i, open, close, pre, post) ==
    IF ~MatchAtCI(s, i, open) THEN NoMatch
    ELSE LET Close(c) ==
                 IF c = 0 THEN NoMatch
                 ELSE [end |-> c + Len(close),
                       out |-> pre \o SubSeq(s, i + Len(open), c - 1) \o post]
         IN  Close(FindCI(s, close, i + Len(open)))
\* "open[^>]*>" under re.IGNORECASE: the index of the closing ">", 0 for no match
OpenTagEnd(s, i, open) ==
    IF MatchAtCI(s, i, open) THEN Find(s, <<">">>, i + Len(open)) ELSE 0

---------------------------------------------------------------------------
(* _inline_tags_to_md                                                      *)

\* the replace(m) callback: tag is group 1, content is group 2 stripped
InlineReplace(tag, content) ==
    IF tag = <<"c","o","d","e">> THEN <<BT>> \o content \o <<BT>>
    ELSE IF tag \in {<<"l","i","n","k">>, <<"l","i","n","k","p","l","a","i","n">>} THEN
        LET Display(label) == <<BT>> \o (IF Len(label) > 1 THEN label[2] ELSE label[1]) \o <<BT>>
        IN  Display(SplitOnce(ReplaceAll(content, 1, <<"#">>, <<".">>), SP))
    ELSE IF tag = <<"l","i","t","e","r","a","l">> THEN content
    ELSE IF tag = <<"v","a","l","u","e">> THEN <<BT>> \o content \o <<BT>>
    ELSE content

\* _INLINE_TAG_RE = \{@(\w+)\s+([^}]*)\}
InlineTagMatch(s, i) ==
    IF ~MatchAt(s, i, <<"{","@">>) THEN NoMatch
    ELSE LET \* group 1 is s[i+2..w-1], group 2 is s[b..c-1]
             Groups(w, b, c) ==
                 IF w = i + 2 \/ b = w \/ c = 0 THEN NoMatch
                 ELSE [end |-> c + 1,
                       out |-> InlineReplace(SubSeq(s, i + 2, w - 1),
                                             Strip(SubSeq(s, b, c - 1)))]
             Space(w, b) == Groups(w, b, Find(s, <<"}">>, b))
             Name(w) == Space(w, SkipSpace(s, w))
         IN  Name(SkipWord(s, i + 2))

---------------------------------------------------------------------------
(* _html_to_md                                                             *)

Digit(n) == CASE n = 1 -> "1" [] n = 2 -> "2" [] n = 3 -> "3"
              [] n = 4 -> "4" [] n = 5 -> "5" [] n = 6 -> "6"
Hashes(n) == [k \in 1..n |-> "#"]

\* <h{n}[^>]*>(.*?)</h{n}>  ->  \n{'#' * (n + 1)} \1\n
HeadingMatch(s, i, n) ==
    LET close == <<"<","/","h">> \o <<Digit(n)>> \o <<">">>
        \* the open tag ends at g, the close tag begins at c
        Group(g, c) ==
            IF g = 0 \/ c = 0 THEN NoMatch
            ELSE [end |-> c + Len(close),
                  out |-> <<NL>> \o Hashes(n + 1) \o <<SP>> \o SubSeq(s, g + 1, c - 1) \o <<NL>>]
        Open(g) == Group(g, IF g = 0 THEN 0 ELSE FindCI(s, close, g + 1))
    IN  Open(OpenTagEnd(s, i, <<"<","h">> \o <<Digit(n)>>))

\* <ul[^>]*>|</ul>|<ol[^>]*>|</ol>  ->  ""
ListTagMatch(s, i) ==
    LET Open(ul, ol) ==
            IF ul # 0 THEN [end |-> ul + 1, out |-> <<>>]
            ELSE IF MatchAtCI(s, i, <<"<","/","u","l",">">>) THEN [end |-> i + 5, out |-> <<>>]
            ELSE IF ol # 0 THEN [end |-> ol + 1, out |-> <<>>]
            ELSE IF MatchAtCI(s, i, <<"<","/","o","l",">">>) THEN [end |-> i + 5, out |-> <<>>]
            ELSE NoMatch
    IN  Open(OpenTagEnd(s, i, <<"<","u","l">>), OpenTagEnd(s, i, <<"<","o","l">>))

\* (?=<li|</[uo]l>|$) at index k; $ is the end, or the place before a last line break
ItemEndsAt(s, k) ==
    \/ MatchAtCI(s, k, <<"<","l","i">>)
    \/ MatchAtCI(s, k, <<"<","/","u","l",">">>)
    \/ MatchAtCI(s, k, <<"<","/","o","l",">">>)
    \/ k = Len(s) + 1
    \/ (k = Len(s) /\ s[k] = NL)

\* <li[^>]*>(.*?)(?=<li|</[uo]l>|$)  ->  "\n- " + group.strip()
ListItemMatch(s, i) ==
    LET Item(g, k) == [end |-> k, out |-> <<"\n","-"," ">> \o Strip(SubSeq(s, g + 1, k - 1))]
        Open(g) ==
            IF g = 0 THEN NoMatch
            ELSE Item(g, SetMin({j \in (g + 1)..(Len(s) + 1) : ItemEndsAt(s, j)}))
    IN  Open(OpenTagEnd(s, i, <<"<","l","i">>))

\* a fixed tag under re.IGNORECASE  ->  out
FixedTagMatch(s, i, tag, out) ==
    IF MatchAtCI(s, i, tag) THEN [end |-> i + Len(tag), out |-> out] ELSE NoMatch

\* <name\s*/?>  ->  out   (<p\s*/?> and <br\s*/?>)
VoidTagMatch(s, i, open, out) ==
    IF ~MatchAtCI(s, i, open) THEN NoMatch
    ELSE LET Close(k) == IF k <= Len(s) /\ s[k] = ">" THEN [end |-> k + 1, out |-> out] ELSE NoMatch
             Slash(j) == Close(IF j <= Len(s) /\ s[j] = "/" THEN j + 1 ELSE j)
         IN  Slash(SkipSpace(s, i + Len(open)))

\* _HTML_TAG_RE = <[^>]+>  ->  ""
HtmlTagMatch(s, i) ==
    IF s[i] # "<" THEN NoMatch
    ELSE LET Close(g) == IF g >= i + 2 THEN [end |-> g + 1, out |-> <<>>] ELSE NoMatch
         IN  Close(Find(s, <<">">>, i + 1))

\* html.unescape, the named character references.  The table holds the
\* references the texts of this model can spell (html.entities.html5 holds
\* these among its 2231 names); the texts hold no "&#", so the numeric
\* references of the library are not reached.
Html5 == [n \in {<<"l","t",";">>, <<"l","t">>, <<"g","t",";">>, <<"g","t">>, <<"a","m","p",";">>, <<"a","m","p">>} |->
            IF n \in {<<"l","t",";">>, <<"l","t">>} THEN "<"
            ELSE IF n \in {<<"g","t",";">>, <<"g","t">>} THEN ">"
            ELSE "&"]
NameStop == {"\t", "\n", "\f", " ", "<", "&", "#", ";"}
MaxNameLen == 32

\* &([^\t\n\f <&#;]{1,32};?) and html._replace_charref
CharRefMatch(s, i) ==
    IF s[i] # "&" THEN NoMatch
    ELSE LET \* the reference is name = s[i+1..f-1]; cuts are its prefixes in the table
             Ref(f, name, cuts) ==
                 IF name \in DOMAIN Html5 THEN [end |-> f, out |-> <<Html5[name]>>]
                 ELSE IF cuts # {} THEN
                     [end |-> f,
                      out |-> <<Html5[SubSeq(name, 1, SetMax(cuts))]>>
                              \o SubSeq(name, SetMax(cuts) + 1, Len(name))]
                 ELSE [end |-> f, out |-> <<"&">> \o name]
             Named(f, name) ==
                 Ref(f, name, {x \in 2..(Len(name) - 1) : SubSeq(name, 1, x) \in DOMAIN Html5})
             Semi(f) == Named(f, SubSeq(s, i + 1, f - 1))
             Stop(e) ==
                 IF e = i + 1 THEN NoMatch
                 ELSE Semi(IF e <= Len(s) /\ s[e] = ";" THEN e + 1 ELSE e)
         IN  Stop(MinOr({j \in (i + 1)..Len(s) : s[j] \in NameStop \/ j > i + MaxNameLen},
                        Len(s) + 1))

---------------------------------------------------------------------------
(* _convert_description                                                    *)

JavaFenceOpen == <<"\n",BT,BT,BT,"j","a","v","a","\n">>
PlainFenceOpen == <<"\n",BT,BT,BT,"\n">>
FenceClose == <<"\n",BT,BT,BT,"\n">>

\* <pre>\{@code\s*(.*?)\s*\}</pre>  ->  "\n```java\n" + group.strip() + "\n```\n"
PreCodeMatch(s, i) ==
    LET Fence(m) ==
            IF m.end = 0 THEN NoMatch
            ELSE [end |-> m.end, out |-> JavaFenceOpen \o Strip(m.out) \o FenceClose]
    IN  Fence(WrappedMatch(s, i, <<"<","p","r","e",">","{","@","c","o","d","e">>, <<"}","<","/","p","r","e",">">>, <<>>, <<>>))

\* <pre>(.*?)</pre>  ->  "\n```\n" + group.strip() + "\n```\n"
PreMatch(s, i) ==
    LET Fence(m) ==
            IF m.end = 0 THEN NoMatch
            ELSE [end |-> m.end, out |-> PlainFenceOpen \o Strip(m.out) \o FenceClose]
    IN  Fence(WrappedMatch(s, i, <<"<","p","r","e",">">>, <<"<","/","p","r","e",">">>, <<>>, <<>>))

\* \n{3,}  ->  "\n\n"
BlankLinesMatch(s, i) ==
    LET Run(e) == IF e - i >= 3 THEN [end |-> e, out |-> <<"\n","\n">>] ELSE NoMatch
    IN  Run(MinOr({j \in i..Len(s) : s[j] # NL}, Len(s) + 1))

\* html.unescape(text)
CharRefRule == [kind |-> "charref"]

\* The substitutions of _html_to_md, in the order of the source: each rule is
\* one re.sub call
HeadingRule(n) == [kind |-> "heading", n |-> n]
WrappedRule(open, close, mark) == [kind |-> "wrapped", open |-> open, close |-> close, mark |-> mark]
FixedRule(tag, out) == [kind |-> "fixed", open |-> tag, out |-> out]
VoidRule(open, out) == [kind |-> "void", open |-> open, out |-> out]
HtmlRules ==
    << HeadingRule(6), HeadingRule(5), HeadingRule(4), HeadingRule(3), HeadingRule(2), HeadingRule(1),
       [kind |-> "listtag"],
       [kind |-> "listitem"],
       FixedRule(<<"<","/","l","i",">">>, <<>>),
       WrappedRule(<<"<","b",">">>, <<"<","/","b",">">>, <<"*","*">>),
       WrappedRule(<<"<","s","t","r","o","n","g",">">>, <<"<","/","s","t","r","o","n","g",">">>, <<"*","*">>),
       WrappedRule(<<"<","i",">">>, <<"<","/","i",">">>, <<"*">>),
       WrappedRule(<<"<","e","m",">">>, <<"<","/","e","m",">">>, <<"*">>),
       WrappedRule(<<"<","c","o","d","e",">">>, <<"<","/","c","o","d","e",">">>, <<BT>>),
       WrappedRule(<<"<","t","t",">">>, <<"<","/","t","t",">">>, <<BT>>),
       VoidRule(<<"<","p">>, <<"\n","\n">>),
       FixedRule(<<"<","/","p",">">>, <<>>),
       VoidRule(<<"<","b","r">>, <<"\n">>),
       [kind |-> "htmltag"],
       CharRefRule >>

\* The substitutions of _convert_description around those of
\* _inline_tags_to_md and _html_to_md
PreCodeRule == [kind |-> "precode"]
PreRule == [kind |-> "pre"]
InlineTagRule == [kind |-> "inline"]
BlankLinesRule == [kind |-> "blanklines"]

\* the match of the pattern of rule that starts at index i of s
RuleMatch(s, i, rule) ==
    CASE rule.kind = "heading" -> HeadingMatch(s, i, rule.n)
      [] rule.kind = "listtag" -> ListTagMatch(s, i)
      [] rule.kind = "listitem" -> ListItemMatch(s, i)
      [] rule.kind = "fixed" -> FixedTagMatch(s, i, rule.open, rule.out)
      [] rule.kind = "wrapped" -> WrappedMatchCI(s, i, rule.open, rule.close, rule.mark, rule.mark)
      [] rule.kind = "void" -> VoidTagMatch(s, i, rule.open, rule.out)
      [] rule.kind = "htmltag" -> HtmlTagMatch(s, i)
      [] rule.kind = "charref" -> CharRefMatch(s, i)
      [] rule.kind = "precode" -> PreCodeMatch(s, i)
      [] rule.kind = "pre" -> PreMatch(s, i)
      [] rule.kind = "inline" -> InlineTagMatch(s, i)
      [] rule.kind = "blanklines" -> BlankLinesMatch(s, i)

RECURSIVE SubAll(_, _)
\* text = re.sub(...) for each rule of rules in turn
SubAll(text, rules) ==
    IF rules = <<>> THEN text
    ELSE SubAll(RegexSub(text, LAMBDA s, i : RuleMatch(s, i, Head(rules))), Tail(rules))

unescape(text) == SubAll(text, <<CharRefRule>>)

_inline_tags_to_md(text) == SubAll(text, <<InlineTagRule>>)

_html_to_md(text) == SubAll(text, HtmlRules)

\* the calls of _inline_tags_to_md and _html_to_md are the substitutions of
\* their rules, run in place
_convert_description(raw) ==
    Strip(SubAll(IF StartsWith(raw, <<"/","*","*">>) THEN _strip_javadoc_stars(raw) ELSE raw,
                 <<PreCodeRule, PreRule, InlineTagRule>> \o HtmlRules \o <<BlankLinesRule>>))

---------------------------------------------------------------------------
(* _render_tags                                                            *)

NamedTags(tags, names, skip) ==
    LET Wanted(t) == t.name \in names /\ t.name \notin skip
    IN  SelectSeq(tags, Wanted)

\* desc.replace("\n", " ").replace("|", "\\|") for desc = _convert_description(t.text)
TableCell(desc) ==
    ReplaceAll(ReplaceAll(desc, 1, <<"\n">>, <<" ">>), 1, <<"|">>, <<"\\","|">>)

\* | `{t.arg}` | {desc} |
TableRows(tags, descs) ==
    [k \in DOMAIN tags |->
        <<"|"," ",BT>> \o tags[k].arg \o <<BT," ","|"," ">> \o TableCell(descs[tags[k].text]) \o <<" ","|">>]

\* the lines appended to out, joined by "\n"; convert[text] is
\* _convert_description(text) for the text of a tag
RenderedTags(tags, skip, convert) ==
    LET params == NamedTags(tags, {<<"p","a","r","a","m">>}, skip)
        returns == NamedTags(tags, {<<"r","e","t","u","r","n">>}, skip)
        throws == NamedTags(tags, {<<"t","h","r","o","w","s">>, <<"e","x","c","e","p","t","i","o","n">>}, skip)
        sees == NamedTags(tags, {<<"s","e","e">>}, skip)
        since == NamedTags(tags, {<<"s","i","n","c","e">>}, skip)
        deprecated == NamedTags(tags, {<<"d","e","p","r","e","c","a","t","e","d">>}, skip)
        depOut ==
            IF deprecated = <<>> THEN <<>>
            ELSE << <<"!","!","!"," ","w","a","r","n","i","n","g"," ","\"","D","e","p","r","e","c","a","t","e","d","\"","\n"," "," "," "," ">>
                    \o (IF deprecated[1].text # <<>>
                          THEN convert[deprecated[1].text]
                          ELSE <<"T","h","i","s"," ","e","l","e","m","e","n","t"," ","i","s"," ","d","e","p","r","e","c","a","t","e","d",".">>)
                    \o <<"\n">> >>
        paramOut ==
            IF params = <<>> THEN <<>>
            ELSE << <<"*","*","P","a","r","a","m","e","t","e","r","s","*","*","\n">>, <<"|"," ","N","a","m","e"," ","|"," ","D","e","s","c","r","i","p","t","i","o","n"," ","|">>, <<"|","-","-","-","-","-","-","|","-","-","-","-","-","-","-","-","-","-","-","-","-","|">> >>
                 \o TableRows(params, convert) \o << <<>> >>
        returnOut ==
            IF returns = <<>> THEN <<>>
            ELSE << <<"*","*","R","e","t","u","r","n","s","*","*","\n">> >>
                 \o [k \in DOMAIN returns |-> convert[returns[k].text]]
                 \o << <<>> >>
        throwsOut ==
            IF throws = <<>> THEN <<>>
            ELSE << <<"*","*","T","h","r","o","w","s","*","*","\n">>, <<"|"," ","T","y","p","e"," ","|"," ","C","o","n","d","i","t","i","o","n"," ","|">>, <<"|","-","-","-","-","-","-","|","-","-","-","-","-","-","-","-","-","-","-","|">> >>
                 \o TableRows(throws, convert) \o << <<>> >>
        seeOut ==
            IF sees = <<>> THEN <<>>
            ELSE << <<"*","*","S","e","e"," ","A","l","s","o","*","*","\n">> >>
                 \o [k \in DOMAIN sees |->
                       <<"-"," ",BT>> \o Strip(sees[k].arg \o <<" ">> \o sees[k].text) \o <<BT>>]
                 \o << <<>> >>
        sinceOut ==
            IF since = <<>> THEN <<>>
            ELSE << <<"*","S","i","n","c","e",":"," ">>
                    \o (IF since[1].text # <<>> THEN since[1].text ELSE since[1].arg)
                    \o <<"*","\n">> >>
    IN  Join(depOut \o paramOut \o returnOut \o throwsOut \o seeOut \o sinceOut, <<NL>>)

_render_tags(tags, skip) ==
    RenderedTags(tags, skip,
                 [text \in {tags[k].text : k \in DOMAIN tags} |-> _convert_description(text)])

---------------------------------------------------------------------------
(* Ordering of strings (code points), sorted() and str(int).               *)

\* the printable ASCII characters in code order, from 32
Ascii == <<
    " ", "!", "\"", "#", "$", "%", "&", "'", "(", ")", "*", "+", ",", "-", ".", "/",
    "0", "1", "2", "3", "4", "5", "6", "7", "8", "9", ":", ";", "<", "=", ">", "?",
    "@", "A", "B", "C", "D", "E", "F", "G", "H", "I", "J", "K", "L", "M", "N", "O",
    "P", "Q", "R", "S", "T", "U", "V", "W", "X", "Y", "Z", "[", "\\", "]", "^", "_",
    BT, "a", "b", "c", "d", "e", "f", "g", "h", "i", "j", "k", "l", "m", "n", "o",
    "p", "q", "r", "s", "t", "u", "v", "w", "x", "y", "z", "{", "|", "}", "~" >>
\* the horizontal ellipsis U+2026 and the middle dot U+00B7, one character each
ELLIPSIS == "ELLIPSIS"
MIDDOT == "MIDDOT"
\* ord(c)
Ord(c) ==
    IF c = "\t" THEN 9
    ELSE IF c = NL THEN 10
    ELSE IF c = MIDDOT THEN 183
    ELSE IF c = ELLIPSIS THEN 8230
    ELSE 31 + (CHOOSE k \in DOMAIN Ascii : Ascii[k] = c)

\* a < b for str
StrLess(a, b) ==
    \E k \in 1..Len(b) :
        /\ \A j \in 1..(k - 1) : j <= Len(a) /\ a[j] = b[j]
        /\ (k > Len(a) \/ (a[k] # b[k] /\ Ord(a[k]) < Ord(b[k])))

\* sorted(seq, key=...): Less compares two elements by their keys; the sort is
\* stable (an element goes after the elements that are not greater)
SortedBy(seq, Less(_, _)) ==
    LET insert(sorted, x) ==
            LET k == Cardinality({j \in DOMAIN sorted : ~Less(x, sorted[j])})
            IN  SubSeq(sorted, 1, k) \o <<x>> \o SubSeq(sorted, k + 1, Len(sorted))
        upto[i \in 0..Len(seq)] ==
            IF i = 0 THEN <<>> ELSE insert(upto[i - 1], seq[i])
    IN  upto[Len(seq)]

\* sorted(S) for a set of str
SortedSet(S) ==
    LET pick[T \in SUBSET S] ==
            IF T = {} THEN <<>>
            ELSE LET m == CHOOSE x \in T : \A y \in T : ~StrLess(y, x)
                 IN  <<m>> \o pick[T \ {m}]
    IN  pick[S]

DigitChar(d) == Ascii[17 + d]
RECURSIVE IntToStr(_)
\* str(n), n >= 0
IntToStr(n) == IF n < 10 THEN <<DigitChar(n)>> ELSE IntToStr(n \div 10) \o <<DigitChar(n % 10)>>

---------------------------------------------------------------------------
(* The Markdown renderer.  A ClassDoc is a record [package, name, kind,    *)
(* description, tags, members, modifiers, deprecated, extends, implements] *)
(* and a MemberDoc a record [kind, name, signature, description, tags,     *)
(* modifiers, deprecated]; kind is one of the kind labels below, the other *)
(* str fields are texts, extends is <<>> for None.                         *)

_KIND_BADGE(kind) ==
    CASE kind = "class" -> <<"C","l","a","s","s">>
      [] kind = "interface" -> <<"I","n","t","e","r","f","a","c","e">>
      [] kind = "enum" -> <<"E","n","u","m">>
      [] kind = "record" -> <<"R","e","c","o","r","d">>
      [] kind = "annotation" -> <<"A","n","n","o","t","a","t","i","o","n">>
      [] kind = "@interface" -> <<"A","n","n","o","t","a","t","i","o","n">>

_KIND_ICON(kind) ==
    CASE kind = "class" -> <<":","m","a","t","e","r","i","a","l","-","c","o","d","e","-","b","r","a","c","e","s",":">>
      [] kind = "interface" -> <<":","m","a","t","e","r","i","a","l","-","a","p","p","r","o","x","i","m","a","t","e","l","y","-","e","q","u","a","l",":">>
      [] kind = "enum" -> <<":","m","a","t","e","r","i","a","l","-","f","o","r","m","a","t","-","l","i","s","t","-","b","u","l","l","e","t","e","d","-","t","y","p","e",":">>
      [] kind = "record" -> <<":","m","a","t","e","r","i","a","l","-","d","a","t","a","b","a","s","e",":">>
      [] kind = "annotation" -> <<":","m","a","t","e","r","i","a","l","-","a","t",":">>
      [] kind = "@interface" -> <<>>

_member_section_title(kind) ==
    CASE kind = "method" -> <<"M","e","t","h","o","d","s">>
      [] kind = "field" -> <<"F","i","e","l","d","s">>
      [] kind = "constant" -> <<"C","o","n","s","t","a","n","t","s">>
      [] kind = "element" -> <<"A","n","n","o","t","a","t","i","o","n"," ","E","l","e","m","e","n","t","s">>

DeprecationNote(deprecated) == IF deprecated THEN <<" ","*","(","d","e","p","r","e","c","a","t","e","d",")","*">> ELSE <<>>

\* the lines one member adds to the page
MemberLines(m) ==
    LET Lines(tag_md) ==
            << <<"#","#","#"," ",BT>> \o m.name \o <<BT>> \o DeprecationNote(m.deprecated) \o <<"\n">>,
               <<BT,BT,BT,"j","a","v","a","\n">> \o Strip(m.signature) \o <<"\n",BT,BT,BT,"\n">> >>
            \o (IF m.description # <<>> THEN <<m.description, <<>> >> ELSE <<>>)
            \o (IF Strip(tag_md) # <<>> THEN <<tag_md>> ELSE <<>>)
            \o << <<"-","-","-","\n">> >>
    IN  Lines(_render_tags(m.tags, {}))

\* while lines and lines[-1].strip() in ("---", "---\n", ""): lines.pop()
PopTrailingRules(lines) ==
    LET Kept(keep) == IF keep = {} THEN <<>> ELSE SubSeq(lines, 1, SetMax(keep))
    IN  Kept({k \in DOMAIN lines : Strip(lines[k]) \notin {<<"-","-","-">>, <<>>}})

MemberOrder == <<"constant", "element", "field", "method">>

\* the loop over order: lines after the groups order[1..n] were rendered
RECURSIVE GroupLines(_, _, _)
GroupLines(lines, members, n) ==
    IF n = 0 THEN lines
    ELSE LET OfKind(m) == m.kind = MemberOrder[n]
             Group(before, group) ==
                 IF group = <<>> THEN before
                 ELSE PopTrailingRules(
                          before
                          \o << <<"#","#"," ">> \o _member_section_title(MemberOrder[n]) \o <<"\n">> >>
                          \o Concat([k \in DOMAIN group |-> MemberLines(group[k])]))
                      \o << <<>> >>
         IN  Group(GroupLines(lines, members, n - 1), SelectSeq(members, OfKind))

render_class_page(doc) ==
    LET title == <<"#"," ">> \o _KIND_ICON(doc.kind) \o <<" ">> \o doc.name
                 \o DeprecationNote(doc.deprecated) \o <<"\n">>
        strip == <<BT>> \o doc.package \o <<".">> \o doc.name \o <<BT," ","&","n","b","s","p",";">> \o <<MIDDOT>>
                 \o <<"&","n","b","s","p",";"," ","*","*">> \o _KIND_BADGE(doc.kind) \o <<"*","*","\n">>
        impl_list == Join([k \in DOMAIN doc.implements |->
                              <<BT>> \o doc.implements[k] \o <<BT>>], <<","," ">>)
        hierarchy ==
            (IF doc.extends # <<>> THEN << <<"E","x","t","e","n","d","s"," ",BT>> \o doc.extends \o <<BT>> >> ELSE <<>>)
            \o (IF doc.implements # <<>> THEN << <<"I","m","p","l","e","m","e","n","t","s"," ">> \o impl_list >> ELSE <<>>)
        Page(head) ==
            IF doc.members = <<>> THEN Join(head, <<NL>>)
            ELSE Join(GroupLines(head, doc.members, Len(MemberOrder)), <<NL>>)
        HeadLines(lines, class_tag_md) ==
            Page(<<title, strip>>
                 \o (IF lines # <<>>
                       THEN << Join(lines, <<" ","&","n","b","s","p",";">> \o <<MIDDOT>> \o <<"&","n","b","s","p",";"," ">>) \o <<"\n">> >>
                       ELSE <<>>)
                 \o << <<"-","-","-","\n">> >>
                 \o (IF doc.description # <<>> THEN <<doc.description, <<>> >> ELSE <<>>)
                 \o (IF Strip(class_tag_md) # <<>> THEN <<class_tag_md>> ELSE <<>>))
    IN  HeadLines(hierarchy, _render_tags(doc.tags, {<<"p","a","r","a","m">>}))

\* the first sentence of the description, cut for the table of the package index
TruncateLimit == 100
TruncateKeep == 97
\* the cut keeps TruncateLimit characters before the ellipsis
FirstSentence_KeepsLimit(description) ==
    LET first_sentence == Strip(ReplaceAll(SplitOnce(description, ".")[1], 1, <<"\n">>, <<" ">>))
    IN  IF Len(first_sentence) > TruncateLimit
          THEN SubSeq(first_sentence, 1, TruncateLimit) \o <<ELLIPSIS>>
          ELSE first_sentence
FirstSentence(description) ==
    LET first_sentence == Strip(ReplaceAll(SplitOnce(description, ".")[1], 1, <<"\n">>, <<" ">>))
    IN  IF Len(first_sentence) > TruncateLimit
          THEN SubSeq(first_sentence, 1, TruncateKeep) \o <<ELLIPSIS>>
          ELSE first_sentence

IndexRow(doc) ==
    <<"|"," ","[",BT>> \o doc.name \o <<BT,"]","(">> \o Lower(doc.name) \o <<".","m","d",")">>
    \o DeprecationNote(doc.deprecated) \o <<" ","|"," ">> \o FirstSentence(doc.description) \o <<" ","|">>

KindOrder == <<"class", "interface", "record", "enum", "annotation", "@interface">>

render_package_index(package, classes) ==
    LET ByName(a, b) == StrLess(a.name, b.name)
        sorted == SortedBy(classes, ByName)
        KindLines(kind) ==
            LET OfKind(d) == d.kind = kind
                docs == SelectSeq(sorted, OfKind)
            IN  IF docs = <<>> THEN <<>>
                ELSE << <<"#","#"," ">> \o _KIND_ICON(kind) \o <<" ">> \o _KIND_BADGE(kind) \o <<"s","\n">>,
                        <<"|"," ","N","a","m","e"," ","|"," ","D","e","s","c","r","i","p","t","i","o","n"," ","|">>, <<"|","-","-","-","-","-","-","|","-","-","-","-","-","-","-","-","-","-","-","-","-","|">> >>
                     \o [k \in DOMAIN docs |-> IndexRow(docs[k])]
                     \o << <<>> >>
    IN  Join(<< <<"#"," ","P","a","c","k","a","g","e"," ",BT>> \o package \o <<BT,"\n">>, <<"-","-","-","\n">> >>
             \o Concat([k \in DOMAIN KindOrder |-> KindLines(KindOrder[k])]),
             <<NL>>)

\* the keys of packages (a dict filled by setdefault over the docs), in
\* insertion order
PackageKeys(docs) ==
    LET keys[i \in 0..Len(docs)] ==
            IF i = 0 THEN <<>>
            ELSE IF \E j \in DOMAIN keys[i - 1] : keys[i - 1][j] = docs[i].package
              THEN keys[i - 1]
              ELSE Append(keys[i - 1], docs[i].package)
    IN  keys[Len(docs)]
\* packages[pkg]
DocsOfPackage(docs, pkg) ==
    LET InPkg(d) == d.package = pkg
    IN  SelectSeq(docs, InPkg)
PkgSlug(pkg) == ReplaceAll(pkg, 1, <<".">>, <<"/">>)

render_api_index(docs) ==
    LET Index(pkgs) ==
        Join(<< <<"#"," ","A","P","I"," ","R","e","f","e","r","e","n","c","e","\n">>,
                <<"A","u","t","o","-","g","e","n","e","r","a","t","e","d"," ","f","r","o","m"," ","J","a","v","a","d","o","c"," ","s","o","u","r","c","e"," ","c","o","m","m","e","n","t","s","."," ","R","u","n"," ",BT,"m","a","k","e"," ","d","o","c","s","-","g","e","n",BT," ","t","o"," ","r","e","g","e","n","e","r","a","t","e",".","\n">>,
                <<"-","-","-","\n">>,
                <<"#","#"," ","P","a","c","k","a","g","e","s","\n">>,
                <<"|"," ","P","a","c","k","a","g","e"," ","|"," ","C","l","a","s","s","e","s"," ","|">>,
                <<"|","-","-","-","-","-","-","-","-","-","|","-","-","-","-","-","-","-","-","-","|">> >>
             \o [k \in DOMAIN pkgs |->
                   <<"|"," ","[",BT>> \o pkgs[k] \o <<BT,"]","(">> \o PkgSlug(pkgs[k]) \o <<"/","i","n","d","e","x",".","m","d",")"," ","|"," ">>
                   \o IntToStr(Len(DocsOfPackage(docs, pkgs[k]))) \o <<" ","|">>]
             \o << <<>> >>,
             <<NL>>)
        Keys(keys) == Index(SortedSet({keys[k] : k \in DOMAIN keys}))
    IN  Keys(PackageKeys(docs))

---------------------------------------------------------------------------
(* parse_java_file: the scans over a source text.  A match is a record     *)
(* [start, end] of offsets of the text: the first character has offset 0   *)
(* and end is the offset after the last character of the match.            *)

\* s[a:b] for offsets 0 <= a <= b
Slice(s, a, b) == SubSeq(s, a + 1, IF b < Len(s) THEN b ELSE Len(s))

\* pattern.finditer(s): End(s, i) is the index after the match that starts at
\* index i (0 when the pattern does not match there); the matches from left
\* to right, each starting at or after the end of the one before
FindIter(s, End(_, _)) ==
    LET Scan(ends) ==
            LET from[i \in 1..(Len(s) + 1)] ==
                    LET Step(j) == IF j = 0 THEN <<>>
                                   ELSE <<[start |-> j - 1, end |-> ends[j] - 1]>> \o from[ends[j]]
                    IN  Step(MinOr({j \in i..Len(s) : ends[j] # 0}, 0))
            IN  from[1]
    IN  IF s = <<>> THEN <<>> ELSE Scan([j \in 1..Len(s) |-> End(s, j)])

\* \b at index p of s (between s[p-1] and s[p])
WordBoundary(s, p) == (p > 1 /\ IsWord(s[p - 1])) # (p <= Len(s) /\ IsWord(s[p]))

RECURSIVE Words(_)
\* s.split()
Words(s) ==
    LET Rest(parts) ==
            IF parts = <<>> THEN <<>>
            ELSE <<parts[1]>> \o (IF Len(parts) > 1 THEN Words(parts[2]) ELSE <<>>)
    IN  Rest(SplitFirstToken(s))

RECURSIVE SplitOn(_, _)
\* s.split(sep) for a one-character sep
SplitOn(s, sep) ==
    LET Rest(parts) ==
            IF Len(parts) = 1 THEN parts ELSE <<parts[1]>> \o SplitOn(parts[2], sep)
    IN  Rest(SplitOnce(s, sep))

\* _PACKAGE_RE = ^\s*package\s+([\w.]+)\s*;  with re.MULTILINE: group 1 of the
\* match that starts at index i, <<>> when there is none
PackageAt(s, i) ==
    LET Name(b, c, d) ==
            IF c > b /\ d <= Len(s) /\ s[d] = ";" THEN SubSeq(s, b, c - 1) ELSE <<>>
        Dotted(b, c) == Name(b, c, SkipSpace(s, c))
        Word(a, b) ==
            IF b > a + 7
              THEN Dotted(b, MinOr({j \in b..Len(s) : ~(IsWord(s[j]) \/ s[j] = ".")}, Len(s) + 1))
              ELSE <<>>
        Key(a) == IF MatchAt(s, a, <<"p","a","c","k","a","g","e">>) THEN Word(a, SkipSpace(s, a + 7)) ELSE <<>>
    IN  IF i = 1 \/ s[i - 1] = NL THEN Key(SkipSpace(s, i)) ELSE <<>>

\* pkg_m.group(1) if pkg_m else ""
PackageOf(source) ==
    LET First(i) == IF i = 0 THEN <<>> ELSE PackageAt(source, i)
    IN  First(MinOr({i \in 1..Len(source) : PackageAt(source, i) # <<>>}, 0))

\* _JAVADOC_RE = /\*\*.*?\*/  with re.DOTALL
JavadocEnd(s, i) ==
    IF MatchAt(s, i, <<"/","*","*">>)
      THEN LET Close(e) == IF e = 0 THEN 0 ELSE e + 2
           IN  Close(Find(s, <<"*","/">>, i + 3))
      ELSE 0

\* [(m.start(), m.end(), m.group(0)) for m in _JAVADOC_RE.finditer(s)]
JavadocBlocks(s) ==
    LET Blocks(ms) == [k \in DOMAIN ms |->
                         [start |-> ms[k].start, end |-> ms[k].end,
                          text |-> Slice(s, ms[k].start, ms[k].end)]]
    IN  Blocks(FindIter(s, JavadocEnd))

\* Modifiers we care about
_MODIFIERS == { <<"p","u","b","l","i","c">>, <<"p","r","o","t","e","c","t","e","d">>, <<"p","r","i","v","a","t","e">>, <<"s","t","a","t","i","c">>, <<"a","b","s","t","r","a","c","t">>, <<"f","i","n","a","l">>,
                <<"d","e","f","a","u","l","t">>, <<"s","y","n","c","h","r","o","n","i","z","e","d">>, <<"n","a","t","i","v","e">>, <<"s","t","r","i","c","t","f","p">>, <<"s","e","a","l","e","d">>, <<"n","o","n","-","s","e","a","l","e","d">> }

_extract_modifiers(text_before) == SelectSeq(Words(text_before), LAMBDA w : w \in _MODIFIERS)

\* the modifier words and the kind words of _CLASS_DECL_RE
DeclModifiers == { <<"p","u","b","l","i","c">>, <<"p","r","o","t","e","c","t","e","d">>, <<"p","r","i","v","a","t","e">>, <<"s","t","a","t","i","c">>, <<"a","b","s","t","r","a","c","t">>, <<"f","i","n","a","l">>,
                   <<"s","e","a","l","e","d">>, <<"n","o","n","-","s","e","a","l","e","d">> }
DeclKinds == { <<"c","l","a","s","s">>, <<"i","n","t","e","r","f","a","c","e">>, <<"e","n","u","m">>, <<"r","e","c","o","r","d">>, <<"@","i","n","t","e","r","f","a","c","e">> }
\* [\w.<>, ]
TypeChars == WordChars \cup {".", "<", ">", ",", " "}
ClauseWords == { <<"e","x","t","e","n","d","s">>, <<"i","m","p","l","e","m","e","n","t","s">>, <<"p","e","r","m","i","t","s">> }
NoDecl == [end |-> 0]

\* the text between the name and the opener: whitespace only, or whitespace
\* and the extends, implements and permits clauses.  The declarations of this
\* model have no type parameters after the name, and each clause word is
\* followed by a type.
ClauseText(between) ==
    LET Clauses(t) ==
            \/ t = <<>>
            \/ /\ IsSpace(between[1])
               /\ \E w \in ClauseWords :
                    StartsWith(t, w) /\ Len(t) > Len(w) + 1 /\ IsSpace(t[Len(w) + 1])
    IN  Clauses(Strip(between))

\* _CLASS_DECL_RE at index i: the modifiers, the kind, the name, the clauses
\* and the opening "{" or "("; end is the index after the opener, 0 for no match
ClassDeclAt(s, i) ==
    LET \* the index after (modifier\s+)* from index a
        mods[a \in 1..(Len(s) + 1)] ==
            LET Next(ws) ==
                    IF ws = {} THEN a
                    ELSE mods[SkipSpace(s, a + Len(CHOOSE w \in ws : TRUE))]
            IN  Next({w \in DeclModifiers :
                        MatchAt(s, a, w) /\ a + Len(w) <= Len(s) /\ IsSpace(s[a + Len(w)])})
        Opened(kind, b, c, k) ==
            IF k # 0 /\ s[k] \in {"{", "("} /\ ClauseText(SubSeq(s, c, k - 1))
              THEN [end |-> k + 1, kind |-> kind, name |-> SubSeq(s, b, c - 1)]
              ELSE NoDecl
        Named(kind, b, c) ==
            IF c > b
              THEN Opened(kind, b, c,
                          MinOr({j \in c..Len(s) : s[j] \notin TypeChars \cup Whitespace}, 0))
              ELSE NoDecl
        Kind(a, kind, b) ==
            IF b > a + Len(kind) THEN Named(kind, b, SkipWord(s, b)) ELSE NoDecl
        Kinds(a, ks) ==
            IF ks = {} THEN NoDecl
            ELSE LET WithKind(kind) == Kind(a, kind, SkipSpace(s, a + Len(kind)))
                 IN  WithKind(CHOOSE k \in ks : TRUE)
        Mods(a) == Kinds(a, {k \in DeclKinds : MatchAt(s, a, k)})
    IN  Mods(mods[i])

\* [(m.group(0), m.start(), m.end()) for m in _CLASS_DECL_RE.finditer(source)]
_find_class_body_pairs(source) ==
    LET Pairs(ms) == [k \in DOMAIN ms |->
                        [text |-> Slice(source, ms[k].start, ms[k].end),
                         start |-> ms[k].start, end |-> ms[k].end]]
    IN  Pairs(FindIter(source, LAMBDA s, i : ClassDeclAt(s, i).end))

\* re.search(r"(?P<kind>@interface|class|interface|enum|record)\s+(?P<name>\w+)", text)
KindMatch(text) ==
    LET At(i) == {k \in DeclKinds :
                    /\ MatchAt(text, i, k)
                    /\ SkipSpace(text, i + Len(k)) > i + Len(k)
                    /\ IsWord((text \o <<" ">>)[SkipSpace(text, i + Len(k))])}
        Groups(i, kind, b) ==
            [found |-> TRUE, start |-> i - 1, kind |-> kind,
             name |-> SubSeq(text, b, SkipWord(text, b) - 1)]
        Found(i) ==
            IF i = 0 THEN [found |-> FALSE]
            ELSE LET WithKind(kind) == Groups(i, kind, SkipSpace(text, i + Len(kind)))
                 IN  WithKind(CHOOSE k \in At(i) : TRUE)
    IN  Found(MinOr({i \in 1..Len(text) : At(i) # {}}, 0))

\* kind_map.get(raw_kind, raw_kind)
KindLabel(raw_kind) ==
    CASE raw_kind = <<"@","i","n","t","e","r","f","a","c","e">> -> "annotation"
      [] raw_kind = <<"i","n","t","e","r","f","a","c","e">> -> "interface"
      [] raw_kind = <<"c","l","a","s","s">> -> "class"
      [] raw_kind = <<"e","n","u","m">> -> "enum"
      [] raw_kind = <<"r","e","c","o","r","d">> -> "record"

\* re.search of \bkey\b\s+([\w.<>, ]+?)(?:\s+(?:stops)\b|\s*[{(]) in text:
\* group 1 of the first match, <<>> when there is none
ClauseGroup(text, key, stops) ==
    LET \* the lazy group may end before index e; q is the index after \s*
        Follows(e, q) ==
            \/ q > e /\ \E w \in stops : MatchAt(text, q, w) /\ WordBoundary(text, q + Len(w))
            \/ q <= Len(text) /\ text[q] \in {"{", "("}
        Ends(g) == {e \in (g + 1)..(Len(text) + 1) :
                      /\ \A j \in g..(e - 1) : text[j] \in TypeChars
                      /\ Follows(e, SkipSpace(text, e))}
        KeyAt(i) ==
            /\ MatchAt(text, i, key)
            /\ WordBoundary(text, i)
            /\ WordBoundary(text, i + Len(key))
            /\ SkipSpace(text, i + Len(key)) > i + Len(key)
            /\ Ends(SkipSpace(text, i + Len(key))) # {}
        Group(g) == SubSeq(text, g, SetMin(Ends(g)) - 1)
        Found(i) == IF i = 0 THEN <<>> ELSE Group(SkipSpace(text, i + Len(key)))
    IN  Found(MinOr({i \in 1..Len(text) : KeyAt(i)}, 0))

\* the opening "(" of a call stands at index q
OpensAt(s, q) == q <= Len(s) /\ s[q] = "("
\* \w+\s*\( matches at index i
CallAt(s, i) == IsWord(s[i]) /\ OpensAt(s, SkipSpace(s, SkipWord(s, i)))
\* (\w+)\s*(?:[=;]|$) matches at index i
FieldAt(s, i) ==
    LET Ends(q) == q > Len(s) \/ s[q] \in {"=", ";"}
    IN  IsWord(s[i]) /\ Ends(SkipSpace(s, SkipWord(s, i)))

_guess_member_kind(text) ==
    LET Kind(stripped) ==
            IF \E i \in 1..Len(stripped) : CallAt(stripped, i) THEN "method" ELSE "field"
    IN  Kind(Strip(text))

\* (name, cleaned_signature)
_parse_member_signature(sig_line) ==
    LET WordAt(i) == SubSeq(sig_line, i, SkipWord(sig_line, i) - 1)
        Field(i) == IF i # 0 THEN WordAt(i) ELSE <<"u","n","k","n","o","w","n">>
        Method(i) ==
            IF i # 0 THEN WordAt(i)
            ELSE Field(MinOr({j \in 1..Len(sig_line) : FieldAt(sig_line, j)}, 0))
    IN  [name |-> Method(MinOr({j \in 1..Len(sig_line) : CallAt(sig_line, j)}, 0)),
         signature |-> Strip(sig_line)]

\* the length of the slice after = body_source[jd_end:jd_end + 600]
AfterWindow == 600

\* re.sub(r"^\s*(?:@\w+(?:\([^)]*\))?\s*)+", "", after): the text after the
\* annotations that open it; the text itself when it opens with none
StripAnnotations(after) ==
    LET \* the index after (@\w+(\([^)]*\))?\s*)* from index a
        skip[a \in 1..(Len(after) + 1)] ==
            LET Closed(w, c) == IF OpensAt(after, w) /\ c # 0 THEN c + 1 ELSE w
                Args(w) == Closed(w, Find(after, <<")">>, w + 1))
                Name(w) == IF w > a + 1 THEN skip[SkipSpace(after, Args(w))] ELSE a
            IN  IF a <= Len(after) /\ after[a] = "@" THEN Name(SkipWord(after, a + 1)) ELSE a
        Stripped(first, last) == IF last > first THEN From(after, last) ELSE after
        Lead(first) == Stripped(first, skip[first])
    IN  Lead(SkipSpace(after, 1))

\* sig_line: after_stripped up to its first "{" or ";", trimmed
SigLine(after) ==
    LET Before(t, n) == IF n = 0 THEN Len(t) ELSE n - 1
        Cut(t, brace, semi) == Strip(SubSeq(t, 1, IF brace < semi THEN brace ELSE semi))
        Sig(t) == Cut(t, Before(t, Find(t, <<"{">>, 1)), Before(t, Find(t, <<";">>, 1)))
    IN  Sig(Strip(StripAnnotations(after)))

\* re.search(r"\b(?:class|interface|enum|record|@interface)\b", sig_line)
HasDeclWord(sig_line) ==
    \E i \in 1..Len(sig_line), k \in DeclKinds :
        /\ MatchAt(sig_line, i, k)
        /\ WordBoundary(sig_line, i)
        /\ WordBoundary(sig_line, i + Len(k))

\* the parsed comment block of a type or a member: _parse_javadoc_block, the
\* description converted when it is not empty, any(t.name == "deprecated")
Documented(jd_text) ==
    LET Converted(block) ==
            IF block.raised # "" THEN [raised |-> block.raised]
            ELSE [raised |-> "",
                  description |-> IF block.description # <<>>
                                    THEN _convert_description(block.description)
                                    ELSE <<>>,
                  tags |-> block.tags,
                  deprecated |-> \E k \in DOMAIN block.tags :
                                    block.tags[k].name = <<"d","e","p","r","e","c","a","t","e","d">>]
    IN  Converted(_parse_javadoc_block(jd_text))
\* desc_raw, class_tags = ("", []) for no comment block
Undocumented == [raised |-> "", description |-> <<>>, tags |-> <<>>, deprecated |-> FALSE]

\* a member kind that is left as _guess_member_kind gave it
MemberKind_AsGuessed(kind, member_kind) == member_kind

\* For enums/annotations treat each element as "constant"/"element"
MemberKind(kind, member_kind) ==
    IF kind = "enum" /\ member_kind = "field" THEN "constant"
    ELSE IF kind = "annotation" /\ member_kind = "method" THEN "element"
    ELSE member_kind

\* a private member that is never skipped
PrivateUndocumented_Never(mods, d) == FALSE

\* "private" in mods and not mdesc and not member_tags
PrivateUndocumented(mods, d) ==
    /\ \E k \in DOMAIN mods : mods[k] = <<"p","r","i","v","a","t","e">>
    /\ d.description = <<>>
    /\ d.tags = <<>>

\* One pass of the member loop over a comment block of the body: the MemberDoc
\* that is appended ("member"), a continue ("skip"), or the exception that
\* _parse_javadoc_block raises ("raised").  d is the parsed block.
MemberScan(kind, after, d) ==
    LET Skip == [status |-> "skip"]
        Member(sig_line, name, mods) ==
            IF d.raised # "" THEN [status |-> "raised"]
            ELSE IF PrivateUndocumented(mods, d) THEN Skip
            ELSE [status |-> "member",
                  member |-> [kind |-> MemberKind(kind, _guess_member_kind(sig_line)),
                              name |-> name, signature |-> Strip(sig_line),
                              description |-> d.description, tags |-> d.tags,
                              modifiers |-> mods, deprecated |-> d.deprecated]]
        Named(sig_line, name) ==
            IF name \in {<<>>, <<"u","n","k","n","o","w","n">>} THEN Skip
            ELSE Member(sig_line, name, _extract_modifiers(SplitOnce(sig_line, "(")[1]))
        Signature(sig_line) ==
            IF sig_line = <<>> THEN Skip
            ELSE IF HasDeclWord(sig_line) THEN Skip
            ELSE Named(sig_line, _parse_member_signature(sig_line).name)
    IN  Signature(SigLine(after))

\* the first of the comment blocks before the declaration
ClassJavadoc_First(javadoc_blocks, primary_start) ==
    LET First(before) == IF before = <<>> THEN <<>> ELSE before[1].text
    IN  First(SelectSeq(javadoc_blocks, LAMBDA b : b.end <= primary_start))

\* class_javadoc: the loop over reversed(javadoc_blocks) stops at the first
\* block with jd_end <= primary_start; "" when there is none
ClassJavadoc(javadoc_blocks, primary_start) ==
    LET Closest(before) == IF before = <<>> THEN <<>> ELSE before[Len(before)].text
    IN  Closest(SelectSeq(javadoc_blocks, LAMBDA b : b.end <= primary_start))

\* the comment blocks that parse_java_file may parse: those of the source and
\* those of the body of the primary declaration
BlockTexts(source, class_decls) ==
    LET Texts(blocks) == {blocks[k].text : k \in DOMAIN blocks}
    IN  Texts(JavadocBlocks(source))
        \cup (IF class_decls = <<>> THEN {}
              ELSE Texts(JavadocBlocks(From(source, class_decls[1].end + 1))))

\* parse_java_file(path): "none" for a file that cannot be read or declares no
\* type, "raised" when _parse_javadoc_block raises, "doc" with the ClassDoc.
\* A file is [path, readable, source]; extends is <<>> for None.
parse_java_file(file) ==
    LET None == [status |-> "none"]
        Raised == [status |-> "raised"]
        IsMember(r) == r.status = "member"
        Appended(doc, results) ==
            IF \E k \in DOMAIN results : results[k].status = "raised" THEN Raised
            ELSE LET Members(kept) == [doc EXCEPT !.members = [k \in DOMAIN kept |-> kept[k].member]]
                 IN  [status |-> "doc", doc |-> Members(SelectSeq(results, IsMember))]
        \* the loop over member_javadocs
        MemberLoop(doc, body_source, member_javadocs, documented) ==
            Appended(doc,
                     [k \in DOMAIN member_javadocs |->
                        MemberScan(doc.kind,
                                   Slice(body_source, member_javadocs[k].end,
                                         member_javadocs[k].end + AfterWindow),
                                   documented[member_javadocs[k].text])])
        Body(doc, body_source, documented) ==
            MemberLoop(doc, body_source, JavadocBlocks(body_source), documented)
        Implements(group) ==
            LET Each(names) == [k \in DOMAIN names |-> Strip(names[k])]
            IN  IF group = <<>> THEN <<>> ELSE Each(SplitOn(group, ","))
        Class(source, primary, kind_m, d, documented) ==
            IF d.raised # "" THEN Raised
            ELSE Body([package |-> PackageOf(source),
                       name |-> kind_m.name,
                       kind |-> KindLabel(kind_m.kind),
                       description |-> d.description,
                       tags |-> d.tags,
                       members |-> <<>>,
                       modifiers |-> _extract_modifiers(SubSeq(primary.text, 1, kind_m.start)),
                       source_file |-> file.path,
                       deprecated |-> d.deprecated,
                       extends |-> Strip(ClauseGroup(primary.text, <<"e","x","t","e","n","d","s">>,
                                                     { <<"i","m","p","l","e","m","e","n","t","s">>, <<"p","e","r","m","i","t","s">> })),
                       implements |-> Implements(ClauseGroup(primary.text, <<"i","m","p","l","e","m","e","n","t","s">>,
                                                             { <<"p","e","r","m","i","t","s">> }))],
                      From(source, primary.end + 1), documented)
        \* the closest comment block that ends at or before the declaration
        Javadoc(source, primary, kind_m, class_javadoc, documented) ==
            Class(source, primary, kind_m,
                  IF class_javadoc = <<>> THEN Undocumented ELSE documented[class_javadoc],
                  documented)
        Kind(source, primary, kind_m, javadoc_blocks, documented) ==
            IF ~kind_m.found THEN None
            ELSE Javadoc(source, primary, kind_m,
                         ClassJavadoc(javadoc_blocks, primary.start), documented)
        Decls(source, class_decls, documented) ==
            IF class_decls = <<>> THEN None
            ELSE Kind(source, class_decls[1], KindMatch(class_decls[1].text),
                      JavadocBlocks(source), documented)
        Parsed(source, class_decls) ==
            Decls(source, class_decls,
                  [text \in BlockTexts(source, class_decls) |-> Documented(text)])
        Source(source) == Parsed(source, _find_class_body_pairs(source))
    IN  IF ~file.readable THEN None ELSE Source(file.source)

---------------------------------------------------------------------------
(* Comment blocks the parser is run on: a block is written from source     *)
(* lines, each line after the usual " * " prefix.                          *)

MaxLines == 3

CommentLines == {
    <<"A","d","d","s",".">>,
    <<"m","o","r","e">>,
    <<"@","p","a","r","a","m"," ","a"," ","f","i","r","s","t">>,
    <<"@","p","a","r","a","m"," ","b"," ","s","e","c","o","n","d">>,
    <<"@","P","a","r","a","m"," ","c">>,
    <<"@","p","a","r","a","m">>,
    <<"@","r","e","t","u","r","n"," ","t","h","e"," ","s","u","m">>,
    <<"@","s","e","e">>,
    <<"@">>,
    <<>> }

\* "/**\n * l1\n * l2\n */" (layout "block") or "/** l1\n * l2\n */" (layout "lead")
RECURSIVE StarLines(_)
StarLines(lines) ==
    IF lines = <<>> THEN <<>>
    ELSE <<NL, SP, "*", SP>> \o Head(lines) \o StarLines(Tail(lines))
WriteComment(layout, lines) ==
    IF layout = "lead" /\ lines # <<>>
      THEN <<"/","*","*",SP>> \o Head(lines) \o StarLines(Tail(lines)) \o <<NL,SP,"*","/">>
      ELSE <<"/","*","*">> \o StarLines(lines) \o <<NL,SP,"*","/">>

LineSeqs == UNION {[1..n -> CommentLines] : n \in 0..MaxLines}

InitParse ==
    /\ pc = "parse"
    /\ \E layout \in {"block", "lead"}, lines \in LineSeqs :
         raw_comment = [layout |-> layout, lines |-> lines,
                        text |-> WriteComment(layout, lines)]
    /\ parsed = [raised |-> "", description |-> <<>>, tags |-> <<>>]
    /\ NotParseIdle

\* the call _parse_javadoc_block(raw_comment)
ParseBlock ==
    /\ pc = "parse"
    /\ parsed' = _parse_javadoc_block(raw_comment.text)
    /\ pc' = "parsed"
    /\ UNCHANGED <<raw_comment, notParse>>

NextParse == ParseBlock
SpecParse == InitParse /\ [][NextParse]_vars

---------------------------------------------------------------------------
(* Texts the converter is run on: a wrapper around at most MaxPieces       *)
(* pieces.                                                                 *)

MaxPieces == 3

Pieces == {
    <<"x">>, <<" ">>, <<"\n">>,
    <<"<","b",">">>, <<"<","/","b",">">>, <<"<","p",">">>, <<"<","l","i",">">>,
    <<"<">>, <<">">>,
    <<"&","l","t",";">>, <<"&","a","m","p",";">>, <<"l","t",";">>,
    <<"{","@","c","o","d","e"," ","y","}">>, <<"{","@","l","i","n","k"," ","A","#","m"," ","z","}">> }

Wrappers == {"none", "pre", "precode", "literal", "h2"}

Wrap(w, inner) ==
    CASE w = "none" -> inner
      [] w = "pre" -> <<"<","p","r","e",">">> \o inner \o <<"<","/","p","r","e",">">>
      [] w = "precode" -> <<"<","p","r","e",">","{","@","c","o","d","e"," ">> \o inner \o <<"}","<","/","p","r","e",">">>
      [] w = "literal" -> <<"{","@","l","i","t","e","r","a","l"," ">> \o inner \o <<"}">>
      [] w = "h2" -> <<"<","h","2",">">> \o inner \o <<"<","/","h","2",">">>

PieceSeqs == UNION {[1..n -> Pieces] : n \in 0..MaxPieces}

InitConvert ==
    /\ pc = "convert"
    /\ \E w \in Wrappers, ps \in PieceSeqs :
         text_in = [wrapper |-> w, inner |-> Concat(ps), text |-> Wrap(w, Concat(ps))]
    /\ text_out = <<>>
    /\ text_again = <<>>
    /\ NotConvertIdle

\* the call _convert_description(text_in)
Convert ==
    /\ pc = "convert"
    /\ text_out' = _convert_description(text_in.text)
    /\ pc' = "converted"
    /\ UNCHANGED <<text_in, text_again, notConvert>>

\* the call _convert_description(text_out), on the output of the first call
ConvertAgain ==
    /\ pc = "converted"
    /\ text_again' = _convert_description(text_out)
    /\ pc' = "reconverted"
    /\ UNCHANGED <<text_in, text_out, notConvert>>

NextConvert == Convert \/ ConvertAgain
SpecConvert == InitConvert /\ [][NextConvert]_vars

---------------------------------------------------------------------------
(* Claims about _parse_javadoc_block.                                      *)

\* the source lines that open a parameter tag: the first token, case-folded,
\* is @param
AtParam == <<"@","p","a","r","a","m">>
IsParamLine(line) ==
    LET toks == SplitFirstToken(line)
    IN  toks # <<>> /\ Lower(toks[1]) = AtParam
\* the name a parameter line gives (its second token), <<>> when it gives none
ParamLineName(line) ==
    LET toks == SplitFirstToken(line)
        more == IF Len(toks) > 1 THEN SplitFirstToken(toks[2]) ELSE <<>>
    IN  IF more = <<>> THEN <<>> ELSE more[1]
SourceParamNames(lines) ==
    LET ParamOnly(l) == IsParamLine(l)
    IN  [k \in DOMAIN SelectSeq(lines, ParamOnly) |->
            ParamLineName(SelectSeq(lines, ParamOnly)[k])]
ParsedParamArgs(tags) ==
    LET IsParam(t) == t.name = <<"p","a","r","a","m">>
    IN  [k \in DOMAIN SelectSeq(tags, IsParam) |-> SelectSeq(tags, IsParam)[k].arg]

\* C1: a block with N parameter tags parses to exactly N tags named "param",
\* in source order, each with a non-empty arg.  Stated here on the blocks whose
\* parameter lines all give a name, where the parsed args must be those names.
C1_ParamTagsRetained ==
    (/\ pc = "parsed"
     /\ parsed.raised = ""
     /\ \A k \in DOMAIN raw_comment.lines :
           IsParamLine(raw_comment.lines[k]) => ParamLineName(raw_comment.lines[k]) # <<>>)
    => ParsedParamArgs(parsed.tags) = SourceParamNames(raw_comment.lines)

\* the lines that are description text
DescriptionLines == { <<"A","d","d","s",".">>, <<"m","o","r","e">> }
\* the lines that are a tag with no content: a bare "@", or a tag name alone
EmptyTagLines == { <<"@">>, <<"@","s","e","e">>, <<"@","p","a","r","a","m">> }

\* C6: a tag chunk with no content (an empty chunk after a tag boundary, or a
\* tag name followed by nothing) yields a Tag with arg = "" and text = "", and
\* the call raises no error.  The blocks are those that open with a description
\* line and end with such a tag.
C6_EmptyChunkYieldsEmptyTag ==
    (/\ pc = "parsed"
     /\ Len(raw_comment.lines) >= 2
     /\ raw_comment.lines[1] \in DescriptionLines
     /\ raw_comment.lines[Len(raw_comment.lines)] \in EmptyTagLines)
    => /\ parsed.raised = ""
       /\ parsed.tags # <<>>
       /\ parsed.tags[Len(parsed.tags)].arg = <<>>
       /\ parsed.tags[Len(parsed.tags)].text = <<>>

\* the part of C6 the code does keep: a tag name followed by nothing
C6_BareTagNameHolds ==
    (/\ pc = "parsed"
     /\ Len(raw_comment.lines) >= 2
     /\ raw_comment.lines[1] \in DescriptionLines
     /\ raw_comment.lines[Len(raw_comment.lines)] \in (EmptyTagLines \ {<<"@">>})
     /\ parsed.raised = "")
    => /\ parsed.tags # <<>>
       /\ parsed.tags[Len(parsed.tags)].arg = <<>>
       /\ parsed.tags[Len(parsed.tags)].text = <<>>

---------------------------------------------------------------------------
(* Claims about _convert_description.                                      *)

Contains(s, p) == Find(s, p, 1) # 0

\* C2: inline-markup conversion is idempotent: converting the output of a
\* conversion gives that output again.
C2_ConvertIdempotent ==
    pc = "reconverted" => text_again = text_out

\* C3: a preformatted block (with or without the inline-code marker) comes out
\* as a fenced code block whose inner content is the whitespace-trimmed content
\* of the source block, character for character.
C3_FenceKeepsContent ==
    /\ (pc = "converted" /\ text_in.wrapper = "precode")
         => Contains(text_out, <<BT,BT,BT,"j","a","v","a","\n">> \o Strip(text_in.inner) \o <<"\n",BT,BT,BT>>)
    /\ (pc = "converted" /\ text_in.wrapper = "pre")
         => Contains(text_out, <<BT,BT,BT,"\n">> \o Strip(text_in.inner) \o <<"\n",BT,BT,BT>>)

---------------------------------------------------------------------------
(* Tag lists the tag renderer is run on: each Tag is what the parser makes *)
(* of a tag chunk "name body".                                             *)

MaxTags == 2

TagNames == { <<"d","e","p","r","e","c","a","t","e","d">>, <<"p","a","r","a","m">>, <<"r","e","t","u","r","n">>, <<"t","h","r","o","w","s">>, <<"e","x","c","e","p","t","i","o","n">>,
              <<"s","e","e">>, <<"s","i","n","c","e">>, <<"a","u","t","h","o","r">> }
TagBodies == { <<>>, <<"a">>, <<"a"," ","x">>, <<"a"," ","<","b",">","x","<","/","b",">">>, <<"{","@","c","o","d","e"," ","y","}"," ","z">>, <<"a"," ","&","l","t",";">> }

TagOf(name, body) ==
    LET t == ParseChunk(name \o <<" ">> \o body)
    IN  [name |-> t.name, arg |-> t.arg, text |-> t.text]
\* the tag chunks of a block: up to MaxTags chunks, each a name and a body
TagSeqs == UNION {[1..n -> TagNames \X TagBodies] : n \in 1..MaxTags}

InitRender ==
    /\ pc = "render"
    /\ \E chunks \in TagSeqs, skip \in {{}, {<<"p","a","r","a","m">>}} :
         tags_in = [tags |-> [k \in DOMAIN chunks |-> TagOf(chunks[k][1], chunks[k][2])],
                    skip |-> skip]
    /\ rendered = <<>>
    /\ NotRenderIdle

\* the call _render_tags(tags, skip)
RenderTags ==
    /\ pc = "render"
    /\ rendered' = _render_tags(tags_in.tags, tags_in.skip)
    /\ pc' = "rendered"
    /\ UNCHANGED <<tags_in, notRender>>

NextRender == RenderTags
SpecRender == InitRender /\ [][NextRender]_vars

---------------------------------------------------------------------------
(* Claims about _render_tags.                                              *)

\* the tags whose text _render_tags writes out: every param, return, throws,
\* exception and see tag, and the first deprecated and the first since tag
IsRenderedTag(tags, k, skip) ==
    /\ tags[k].name \notin skip
    /\ \/ tags[k].name \in {<<"p","a","r","a","m">>, <<"r","e","t","u","r","n">>, <<"t","h","r","o","w","s">>, <<"e","x","c","e","p","t","i","o","n">>, <<"s","e","e">>}
       \/ /\ tags[k].name \in {<<"d","e","p","r","e","c","a","t","e","d">>, <<"s","i","n","c","e">>}
          /\ \A j \in 1..(k - 1) : tags[j].name # tags[k].name

\* C4: the free-text conversion is applied to the text of every rendered tag
\* (deprecated, param, return, throws/exception, see, since), each on its own:
\* the rendered section holds the converted text of each such tag.
C4_EveryTagTextConverted ==
    pc = "rendered" =>
        \A k \in DOMAIN tags_in.tags :
            IsRenderedTag(tags_in.tags, k, tags_in.skip)
                => Contains(rendered, _convert_description(tags_in.tags[k].text))

\* the part of C4 the code does keep: deprecated, param, return, throws and
\* exception texts are converted
C4_ConvertedTagsHold ==
    pc = "rendered" =>
        \A k \in DOMAIN tags_in.tags :
            (/\ IsRenderedTag(tags_in.tags, k, tags_in.skip)
             /\ tags_in.tags[k].name \notin {<<"s","e","e">>, <<"s","i","n","c","e">>})
                => Contains(rendered, _convert_description(tags_in.tags[k].text))

---------------------------------------------------------------------------
(* Package indexes the index renderer is run on: one type whose            *)
(* description opens with a run of up to MaxSentence characters.           *)

MaxSentence == 103

Run(n, breakAt) == [k \in 1..n |-> IF k = breakAt /\ k < n THEN NL ELSE "a"]
SentenceTails == { <<>>, <<".">>, <<" ","."," ","b">>, <<".","b",".","c">>, <<" ","b">> }

\* a ClassDoc with the fields of the dataclass
ClassDoc(package, name, kind, description, tags, members, deprecated) ==
    [package |-> package, name |-> name, kind |-> kind, description |-> description,
     tags |-> tags, members |-> members, modifiers |-> <<>>, deprecated |-> deprecated,
     extends |-> <<>>, implements |-> <<>>]

InitIndex ==
    /\ pc = "index"
    /\ \E n \in 0..MaxSentence, breakAt \in {0, 3}, tail \in SentenceTails,
          dep \in BOOLEAN :
         index_in = [package |-> <<"p">>,
                     classes |-> << ClassDoc(<<"p">>, <<"F","o","o">>, "class",
                                             Strip(Run(n, breakAt) \o tail),
                                             <<>>, <<>>, dep) >>]
    /\ index_out = <<>>
    /\ NotIndexIdle

\* the call render_package_index(package, classes)
RenderPackageIndex ==
    /\ pc = "index"
    /\ index_out' = render_package_index(index_in.package, index_in.classes)
    /\ pc' = "indexed"
    /\ UNCHANGED <<index_in, notIndex>>

NextIndex == RenderPackageIndex
SpecIndex == InitIndex /\ [][NextIndex]_vars

---------------------------------------------------------------------------
(* Claims about render_package_index.                                      *)

\* the description cell of the row of doc in the rendered page: the text
\* between the name cell and the " |" that ends the row
CellOf(page, doc) ==
    LET nameCell == <<"|"," ","[",BT>> \o doc.name \o <<BT,"]","(">> \o Lower(doc.name) \o <<".","m","d",")">>
                    \o (IF doc.deprecated THEN <<" ","*","(","d","e","p","r","e","c","a","t","e","d",")","*">> ELSE <<>>) \o <<" ","|"," ">>
        start == Find(page, nameCell, 1) + Len(nameCell)
        stop == Find(page, <<NL>>, start)
    IN  SubSeq(page, start, stop - 3)

\* the text before the first period, line breaks turned to spaces, trimmed
SentenceOf(description) ==
    LET dot == Find(description, <<".">>, 1)
        before == IF dot = 0 THEN description ELSE SubSeq(description, 1, dot - 1)
    IN  Strip([k \in DOMAIN before |-> IF before[k] = NL THEN SP ELSE before[k]])

---------------------------------------------------------------------------
(* generate_docs: the source tree it reads and the tree it writes.  A path *)
(* is the sequence of its parts below src_root or below out_dir; out_dir   *)
(* itself is <<>>.  The run starts on an output directory with nothing in  *)
(* it.                                                                     *)

\* a < b for Path: the parts are compared in order
PathLess(a, b) ==
    \E k \in 1..Len(b) :
        /\ \A j \in 1..(k - 1) : j <= Len(a) /\ a[j] = b[j]
        /\ (k > Len(a) \/ (a[k] # b[k] /\ StrLess(a[k], b[k])))

\* sorted(src_root.rglob("*.java")), base_pkg being ""
collect_java_files(tree) ==
    LET pick[T \in SUBSET tree] ==
            IF T = {} THEN <<>>
            ELSE LET First(m) == <<m>> \o pick[T \ {m}]
                 IN  First(CHOOSE x \in T : \A y \in T : ~PathLess(y.path, x.path))
    IN  pick[tree]

\* Path.mkdir(parents=True, exist_ok=True)
Mkdir(dirs, path) == dirs \cup {SubSeq(path, 1, n) : n \in 0..Len(path)}
\* Path.write_text(content)
WriteText(files, path, content) ==
    [p \in DOMAIN files \cup {path} |-> IF p = path THEN content ELSE files[p]]
EmptyTree == [p \in {} |-> <<>>]

\* out_dir / package.replace(".", "/"): a Path drops the empty parts.  The
\* packages of this model do not start with "."
PkgDir(package) == SelectSeq(SplitOn(package, "."), LAMBDA part : part # <<>>)
\* pkg_dir / f"{doc.name.lower()}.md"
PagePath(doc) == PkgDir(doc.package) \o << Lower(doc.name) \o <<".","m","d">> >>
IndexName == <<"i","n","d","e","x",".","m","d">>
PagesName == <<".","p","a","g","e","s">>

\* the files after _write_dir_pages(out_dir): a .pages in each directory that
\* directory.rglob("*") yields and that has entries
_write_dir_pages(dirs, files) ==
    LET Names(d, paths) == {p[Len(p)] : p \in {q \in paths : Len(q) = Len(d) + 1
                                                           /\ SubSeq(q, 1, Len(d)) = d}}
        children_dirs(d) == SortedSet({c \in Names(d, dirs) : ~StartsWith(c, <<".">>)})
        children_md(d) ==
            SortedSet({c \in Names(d, dirs \cup DOMAIN files) :
                         Len(c) > 3 /\ EndsWith(c, <<".","m","d">>)})
        Ordered(md) ==
            (IF \E k \in DOMAIN md : md[k] = IndexName THEN <<IndexName>> ELSE <<>>)
            \o SelectSeq(md, LAMBDA f : f # IndexName)
        nav_entries(d) ==
            LET Entry(names) == [k \in DOMAIN names |-> <<" "," ","-"," ">> \o names[k]]
            IN  Entry(Ordered(children_md(d)) \o children_dirs(d))
        pages_content(d) == <<"n","a","v",":","\n">> \o Join(nav_entries(d), <<NL>>) \o <<NL>>
        Written(targets) ==
            [p \in DOMAIN files \cup {d \o <<PagesName>> : d \in targets} |->
                IF p[Len(p)] = PagesName /\ SubSeq(p, 1, Len(p) - 1) \in targets
                  THEN pages_content(SubSeq(p, 1, Len(p) - 1))
                  ELSE files[p]]
    IN  Written({d \in dirs : d # <<>> /\ nav_entries(d) # <<>>})

\* The .java files the runs of this model find under src_root
FooJava ==
    [path |-> <<<<"p">>, <<"F","o","o",".","j","a","v","a">>>>, readable |-> TRUE,
     source |-> <<"p","a","c","k","a","g","e"," ","p",";","\n","\n","/","*","*","\n"," ","*"," ","A"," ","f","o","o",".","\n"," ","*","/","\n","p","u","b","l","i","c"," ","c","l","a","s","s"," ","F","o","o"," ","e","x","t","e","n","d","s"," ","B","a","s","e"," ","i","m","p","l","e","m","e","n","t","s"," ","A",","," ","B"," ","{","\n"," "," "," "," ","/","*","*","\n"," "," "," "," "," ","*"," ","R","u","n","s"," ","i","t",".","\n"," "," "," "," "," ","*"," ","@","p","a","r","a","m"," ","n"," ","t","h","e"," ","c","o","u","n","t","\n"," "," "," "," "," ","*","/","\n"," "," "," "," ","@","O","v","e","r","r","i","d","e","\n"," "," "," "," ","p","u","b","l","i","c"," ","i","n","t"," ","r","u","n","(","i","n","t"," ","n",")"," ","{"," ","r","e","t","u","r","n"," ","n",";"," ","}","\n","}","\n">>]
FooUpperJava ==
    [path |-> <<<<"p">>, <<"F","O","O",".","j","a","v","a">>>>, readable |-> TRUE,
     source |-> <<"p","a","c","k","a","g","e"," ","p",";","\n","/","*","*"," ","O","t","h","e","r","."," ","*","/","\n","p","u","b","l","i","c"," ","c","l","a","s","s"," ","F","O","O"," ","{","\n","}","\n">>]
IndexJava ==
    [path |-> <<<<"p">>, <<"I","n","d","e","x",".","j","a","v","a">>>>, readable |-> TRUE,
     source |-> <<"p","a","c","k","a","g","e"," ","p",";","\n","/","*","*"," ","A","n"," ","i","n","d","e","x","."," ","*","/","\n","p","u","b","l","i","c"," ","f","i","n","a","l"," ","c","l","a","s","s"," ","I","n","d","e","x"," ","{","\n","}","\n">>]
BareJava ==
    [path |-> <<<<"B","a","r","e",".","j","a","v","a">>>>, readable |-> TRUE,
     source |-> <<"/","*","*"," ","B","a","r","e","."," ","*","/","\n","c","l","a","s","s"," ","B","a","r","e"," ","{","\n","}","\n">>]
ZedJava ==
    [path |-> <<<<"p">>, <<"q">>, <<"Z","e","d",".","j","a","v","a">>>>, readable |-> TRUE,
     source |-> <<"p","a","c","k","a","g","e"," ","p",".","q",";","\n","p","u","b","l","i","c"," ","i","n","t","e","r","f","a","c","e"," ","Z","e","d"," ","{","\n"," "," "," "," ","/","*","*"," ","Z","a","p","s","."," ","*","/","\n"," "," "," "," ","v","o","i","d"," ","z","a","p","(",")",";","\n","}","\n">>]
ColorJava ==
    [path |-> <<<<"p">>, <<"C","o","l","o","r",".","j","a","v","a">>>>, readable |-> TRUE,
     source |-> <<"p","a","c","k","a","g","e"," ","p",";","\n","/","*","*"," ","C","o","l","o","r","s","."," ","*","/","\n","p","u","b","l","i","c"," ","e","n","u","m"," ","C","o","l","o","r"," ","{","\n"," "," "," "," ","/","*","*"," ","R","e","d","."," ","*","/","\n"," "," "," "," ","R","E","D",";","\n"," "," "," "," ","/","*","*"," ","*","/","\n"," "," "," "," ","p","r","i","v","a","t","e"," ","i","n","t"," ","c","o","d","e"," ","="," ","1",";","\n","}","\n">>]
EmptyJava ==
    [path |-> <<<<"p">>, <<"E","m","p","t","y",".","j","a","v","a">>>>, readable |-> TRUE,
     source |-> <<"p","a","c","k","a","g","e"," ","p",";","\n","c","l","a","s","s"," ","E","m","p","t","y"," ","{","\n","}","\n">>]
NotesJava ==
    [path |-> <<<<"p">>, <<"N","o","t","e","s",".","j","a","v","a">>>>, readable |-> TRUE,
     source |-> <<"p","a","c","k","a","g","e"," ","p",";","\n","/","/"," ","n","o","t","e","s"," ","o","n","l","y","\n">>]
LockedJava ==
    [path |-> <<<<"p">>, <<"L","o","c","k","e","d",".","j","a","v","a">>>>, readable |-> FALSE,
     source |-> <<>>]
BadJava ==
    [path |-> <<<<"p">>, <<"B","a","d",".","j","a","v","a">>>>, readable |-> TRUE,
     source |-> <<"p","a","c","k","a","g","e"," ","p",";","\n","/","*","*","\n"," ","*"," ","B","a","d",".","\n"," ","*"," ","@","\n"," ","*","/","\n","p","u","b","l","i","c"," ","c","l","a","s","s"," ","B","a","d"," ","{","\n","}","\n">>]
Catalogue == {FooJava, FooUpperJava, IndexJava, BareJava, ZedJava, ColorJava, EmptyJava, NotesJava, LockedJava, BadJava}

\* the largest number of .java files under src_root
MaxFiles == 3

InitGen ==
    /\ pc = "start"
    /\ src_tree \in {T \in SUBSET Catalogue : Cardinality(T) <= MaxFiles}
    /\ java_files = <<>>
    /\ file_at = 0
    /\ all_docs = <<>>
    /\ skipped = 0
    /\ out_dirs = {}
    /\ out_files = EmptyTree
    /\ NotGenIdle

\* out_dir.mkdir; java_files = collect_java_files(...); return [] for no file
Collect ==
    /\ pc = "start"
    /\ out_dirs' = Mkdir(out_dirs, <<>>)
    /\ java_files' = collect_java_files(src_tree)
    /\ pc' = IF src_tree = {} THEN "returned" ELSE "parse"
    /\ file_at' = 1
    /\ UNCHANGED <<src_tree, all_docs, skipped, out_files, notGen>>

\* one pass of "for jf in java_files"; an exception of parse_java_file ends
\* generate_docs
ParseFile ==
    LET has_content(doc) == doc.description # <<>> \/ doc.tags # <<>> \/ doc.members # <<>>
        Visit(r) ==
            /\ pc' = IF r.status = "raised" THEN "raised"
                     ELSE IF file_at < Len(java_files) THEN "parse"
                     ELSE IF r.status = "doc" /\ has_content(r.doc) THEN "pages"
                     ELSE IF all_docs # <<>> THEN "pages"
                     ELSE "api"
            /\ file_at' = IF r.status = "raised" THEN file_at
                          ELSE IF file_at < Len(java_files) THEN file_at + 1 ELSE 1
            /\ skipped' = IF r.status = "none" \/ (r.status = "doc" /\ ~has_content(r.doc))
                            THEN skipped + 1 ELSE skipped
            /\ all_docs' = IF r.status = "doc" /\ has_content(r.doc)
                             THEN Append(all_docs, r.doc) ELSE all_docs
    IN  /\ pc = "parse"
        /\ Visit(parse_java_file(java_files[file_at]))
        /\ UNCHANGED <<src_tree, java_files, out_dirs, out_files, notGen>>

\* one pass of "for doc in all_docs": the page of a type
WriteClassPage ==
    /\ pc = "pages"
    /\ out_dirs' = Mkdir(out_dirs, PkgDir(all_docs[file_at].package))
    /\ out_files' = WriteText(out_files, PagePath(all_docs[file_at]),
                              render_class_page(all_docs[file_at]))
    /\ pc' = IF file_at < Len(all_docs) THEN "pages" ELSE "packages"
    /\ file_at' = IF file_at < Len(all_docs) THEN file_at + 1 ELSE 1
    /\ UNCHANGED <<src_tree, java_files, all_docs, skipped, notGen>>

\* one pass of "for pkg, docs in packages.items()": the index of a package
WritePackageIndex ==
    LET Write(pkg) ==
            /\ out_dirs' = Mkdir(out_dirs, PkgDir(pkg))
            /\ out_files' = WriteText(out_files, PkgDir(pkg) \o <<IndexName>>,
                                      render_package_index(pkg, DocsOfPackage(all_docs, pkg)))
        Loop(keys) ==
            /\ Write(keys[file_at])
            /\ pc' = IF file_at < Len(keys) THEN "packages" ELSE "api"
            /\ file_at' = IF file_at < Len(keys) THEN file_at + 1 ELSE 1
    IN  /\ pc = "packages"
        /\ Loop(PackageKeys(all_docs))
        /\ UNCHANGED <<src_tree, java_files, all_docs, skipped, notGen>>

\* the top-level index, then _write_dir_pages(out_dir) and the return
WriteApiIndex ==
    /\ pc = "api"
    /\ out_files' = _write_dir_pages(out_dirs,
                                     WriteText(out_files, <<IndexName>>, render_api_index(all_docs)))
    /\ pc' = "returned"
    /\ UNCHANGED <<src_tree, java_files, file_at, all_docs, skipped, out_dirs, notGen>>

NextGen == Collect \/ ParseFile \/ WriteClassPage \/ WritePackageIndex \/ WriteApiIndex
SpecGen == InitGen /\ [][NextGen]_vars

---------------------------------------------------------------------------
(* Claims about generate_docs.                                             *)

\* C5: no content of a file ends generate_docs in an exception, and once the
\* processing loop has visited every file the number of retained ClassDocs
\* plus skipped is the number of files.
C5_NoFileAbortsRun ==
    /\ pc # "raised"
    /\ pc \in {"pages", "packages", "api", "returned"}
         => Len(all_docs) + skipped = Len(java_files)

\* C5, the part that holds: a run that no exception ends counts every file,
\* and a file that cannot be read, declares no type, or has no description,
\* no tags and no members adds no ClassDoc.
C5_CompletedLoopCounts ==
    pc \in {"pages", "packages", "api", "returned"}
      => /\ Len(all_docs) + skipped = Len(java_files)
         /\ \A k \in DOMAIN all_docs :
              \E f \in src_tree :
                 /\ f.readable
                 /\ all_docs[k].source_file = f.path
                 /\ \/ all_docs[k].description # <<>>
                    \/ all_docs[k].tags # <<>>
                    \/ all_docs[k].members # <<>>

\* C7: after generate_docs has written, when the (package, name) pairs of the
\* retained types are pairwise distinct, every retained type has its page at
\* <package as directories>/<lowercased name>.md and the page is
\* render_class_page of that type.
C7_EveryTypeKeepsItsPage ==
    (/\ pc = "returned"
     /\ java_files # <<>>
     /\ \A i, j \in DOMAIN all_docs :
          i # j => <<all_docs[i].package, all_docs[i].name>>
                     # <<all_docs[j].package, all_docs[j].name>>)
      => \A k \in DOMAIN all_docs :
            /\ PagePath(all_docs[k]) \in DOMAIN out_files
            /\ out_files[PagePath(all_docs[k])] = render_class_page(all_docs[k])

\* C8: after generate_docs has written, the directory of every package with a
\* retained type holds an index.md that is render_package_index of the
\* package, and index.md of the output root is render_api_index.
C8_EveryIndexWritten ==
    (pc = "returned" /\ java_files # <<>>)
      => /\ \A k \in DOMAIN all_docs :
              LET pkg == all_docs[k].package
              IN  /\ PkgDir(pkg) \o <<IndexName>> \in DOMAIN out_files
                  /\ out_files[PkgDir(pkg) \o <<IndexName>>]
                       = render_package_index(pkg, DocsOfPackage(all_docs, pkg))
         /\ <<IndexName>> \in DOMAIN out_files
         /\ out_files[<<IndexName>>] = render_api_index(all_docs)

\* C9: after generate_docs, the output root and every directory below it has
\* a .pages file that lists the direct children of the directory: index.md
\* first if present, then the other .md documents in sorted order, then the
\* subdirectories in sorted order.
C9_EveryDirectoryHasPages ==
    (pc = "returned" /\ java_files # <<>>)
      => \A d \in out_dirs :
            LET children == {p \in out_dirs \cup DOMAIN out_files :
                               Len(p) = Len(d) + 1 /\ SubSeq(p, 1, Len(d)) = d}
                docs == {p[Len(p)] : p \in {q \in children : q \notin out_dirs /\ EndsWith(q[Len(q)], <<".","m","d">>)}}
                subdirs == {p[Len(p)] : p \in children \cap out_dirs}
                listed == (IF IndexName \in docs THEN <<IndexName>> ELSE <<>>)
                          \o SortedSet(docs \ {IndexName}) \o SortedSet(subdirs)
            IN  /\ d \o <<PagesName>> \in DOMAIN out_files
                /\ out_files[d \o <<PagesName>>]
                     = <<"n","a","v",":","\n">> \o Join([k \in DOMAIN listed |-> <<" "," ","-"," ">> \o listed[k]], <<NL>>) \o <<NL>>

\* C9, the part that holds: every directory below the output root has its
\* .pages file with the children in that order.
C9_DirectoriesBelowRootHavePages ==
    (pc = "returned" /\ java_files # <<>>)
      => \A d \in out_dirs \ {<<>>} :
            LET children == {p \in out_dirs \cup DOMAIN out_files :
                               Len(p) = Len(d) + 1 /\ SubSeq(p, 1, Len(d)) = d}
                docs == {p[Len(p)] : p \in {q \in children : q \notin out_dirs /\ EndsWith(q[Len(q)], <<".","m","d">>)}}
                subdirs == {p[Len(p)] : p \in children \cap out_dirs}
                listed == (IF IndexName \in docs THEN <<IndexName>> ELSE <<>>)
                          \o SortedSet(docs \ {IndexName}) \o SortedSet(subdirs)
            IN  /\ d \o <<PagesName>> \in DOMAIN out_files
                /\ out_files[d \o <<PagesName>>]
                     = <<"n","a","v",":","\n">> \o Join([k \in DOMAIN listed |-> <<" "," ","-"," ">> \o listed[k]], <<NL>>) \o <<NL>>

---------------------------------------------------------------------------
(* parse_java_file on the files of one type: comment blocks before the     *)
(* declaration, then the declaration with members that each follow a       *)
(* comment block of their own.                                             *)

\* the words that open the declaration
TypeWords == { <<"c","l","a","s","s">>, <<"e","n","u","m">>, <<"@","i","n","t","e","r","f","a","c","e">> }
\* the comment blocks written before the declaration
HeadBlocks == { <<"/","*","*"," ","O","n","e","."," ","*","/">>, <<"/","*","*","\n"," ","*"," ","T","w","o",".","\n"," ","*"," ","@","s","i","n","c","e"," ","2","\n"," ","*","/">> }
\* the comment blocks written before a member
MemberBlocks == { <<"/","*","*"," ","*","/">>, <<"/","*","*"," ","D","o","c","."," ","*","/">> }
\* the member declarations
MemberDecls == { <<"p","r","i","v","a","t","e"," ","i","n","t"," ","c","o","d","e"," ","="," ","1",";">>, <<"v","o","i","d"," ","r","u","n","(",")",";">>, <<"p","r","i","v","a","t","e"," ","v","o","i","d"," ","h","i","d","(",")"," ","{","}">>, <<"R","E","D",",">> }
MemberPieces == [javadoc : MemberBlocks, decl : MemberDecls]

\* the largest number of comment blocks in a file
MaxBlocks == 2

\* the text of the file
WriteFile(word, heads, members) ==
    <<"p","a","c","k","a","g","e"," ","p",";","\n">>
    \o Concat([k \in DOMAIN heads |-> heads[k] \o <<NL>>])
    \o <<"p","u","b","l","i","c"," ">> \o word \o <<" ","T"," ","{","\n">>
    \o Concat([k \in DOMAIN members |->
                 <<" "," "," "," ">> \o members[k].javadoc \o <<"\n"," "," "," "," ">> \o members[k].decl \o <<NL>>])
    \o <<"}","\n">>

FilePieces ==
    UNION {[1..h -> HeadBlocks] \X [1..m -> MemberPieces] :
             h \in 0..MaxBlocks, m \in 0..MaxBlocks}

InitFile ==
    /\ pc = "file"
    /\ \E word \in TypeWords, pieces \in FilePieces :
          /\ Len(pieces[1]) + Len(pieces[2]) <= MaxBlocks
          /\ java_file = [path |-> <<<<"T",".","j","a","v","a">>>>, readable |-> TRUE,
                          word |-> word, heads |-> pieces[1], members |-> pieces[2],
                          source |-> WriteFile(word, pieces[1], pieces[2])]
    /\ class_doc = <<>>
    /\ NotFileIdle

ParseJavaFile ==
    /\ pc = "file"
    /\ class_doc' = parse_java_file(java_file)
    /\ pc' = "parsed_file"
    /\ UNCHANGED <<java_file, notFile>>

NextFile == ParseJavaFile
SpecFile == InitFile /\ [][NextFile]_vars

---------------------------------------------------------------------------
(* Claims about parse_java_file.                                           *)

\* the members of the returned ClassDoc
DocMembers == IF class_doc.status = "doc" THEN class_doc.doc.members ELSE <<>>
\* the text of a member declaration up to its ";" or "{", trimmed
DeclSignature(decl) ==
    Strip(SubSeq(decl, 1, SetMin({j \in 1..Len(decl) : decl[j] \in {";", "{"}} \cup {Len(decl) + 1}) - 1))
PrivateDecls == {decl \in MemberDecls : StartsWith(decl, <<"p","r","i","v","a","t","e"," ">>)}

\* C11: in every ClassDoc that parse_java_file returns, an enum has no member
\* of kind "field" and an annotation has no member of kind "method", and a
\* member of kind "constant" is in an enum, one of kind "element" in an
\* annotation.
C11_MemberKindsFitTypeKind ==
    (pc = "parsed_file" /\ class_doc.status = "doc")
      => \A k \in DOMAIN DocMembers :
            /\ class_doc.doc.kind = "enum" => DocMembers[k].kind # "field"
            /\ class_doc.doc.kind = "annotation" => DocMembers[k].kind # "method"
            /\ DocMembers[k].kind = "constant" => class_doc.doc.kind = "enum"
            /\ DocMembers[k].kind = "element" => class_doc.doc.kind = "annotation"
            /\ DocMembers[k].kind \in {"constant", "element", "field", "method"}

\* an enum was parsed whose documented field "code" and whose method "run"
\* are both members: the field as a constant, the method as a method
C11_EnumFieldReclassified ==
    /\ pc = "parsed_file"
    /\ class_doc.status = "doc"
    /\ class_doc.doc.kind = "enum"
    /\ \E k \in DOMAIN DocMembers :
          DocMembers[k].name = <<"c","o","d","e">> /\ DocMembers[k].kind = "constant"
    /\ \E k \in DOMAIN DocMembers :
          DocMembers[k].name = <<"r","u","n">> /\ DocMembers[k].kind = "method"

C13_PrivateNeedsDocumentation ==
    (pc = "parsed_file" /\ class_doc.status = "doc")
      => \A decl \in PrivateDecls :
            LET added == {k \in DOMAIN DocMembers :
                            DocMembers[k].signature = DeclSignature(decl)}
                documented == {k \in DOMAIN java_file.members :
                                 /\ java_file.members[k].decl = decl
                                 /\ java_file.members[k].javadoc = <<"/","*","*"," ","D","o","c","."," ","*","/">>}
            IN  /\ Cardinality(added) = Cardinality(documented)
                /\ \A k \in added :
                     /\ DocMembers[k].description = <<"D","o","c",".">>
                     /\ DocMembers[k].modifiers = <<<<"p","r","i","v","a","t","e">>>>

\* a file was parsed in which the private field follows an empty comment
\* block and the private method a comment block with a description: the
\* method is the only member
C13_PrivatePairParsed ==
    /\ pc = "parsed_file"
    /\ class_doc.status = "doc"
    /\ Len(java_file.members) = 2
    /\ java_file.members[1] = [javadoc |-> <<"/","*","*"," ","*","/">>, decl |-> <<"p","r","i","v","a","t","e"," ","i","n","t"," ","c","o","d","e"," ","="," ","1",";">>]
    /\ java_file.members[2] = [javadoc |-> <<"/","*","*"," ","D","o","c","."," ","*","/">>, decl |-> <<"p","r","i","v","a","t","e"," ","v","o","i","d"," ","h","i","d","(",")"," ","{","}">>]
    /\ Len(DocMembers) = 1
    /\ DocMembers[1].name = <<"h","i","d">>

---------------------------------------------------------------------------
(* render_class_page on the ClassDocs of a class with members of the four  *)
(* kinds that parse_java_file gives.                                       *)

\* the largest number of members of a type
MaxMembers == 2

MemberKinds == {"constant", "element", "field", "method"}
MemberNames == { <<"a">>, <<"b">> }
MemberTexts == { <<>>, <<"D","o","c",".">>, <<"-","-","-">> }
MemberTagLists == { <<>>, << [name |-> <<"s","i","n","c","e">>, arg |-> <<>>, text |-> <<"1">>] >> }
\* a MemberDoc with the fields of the dataclass
MemberDoc(kind, name, description, tags) ==
    [kind |-> kind, name |-> name, signature |-> <<"i","n","t"," ">> \o name,
     description |-> description, tags |-> tags, modifiers |-> <<>>, deprecated |-> FALSE]
MemberDocs ==
    {MemberDoc(kind, name, description, tags) :
       kind \in MemberKinds, name \in MemberNames,
       description \in MemberTexts, tags \in MemberTagLists}

InitPage ==
    /\ pc = "page"
    /\ \E members \in UNION {[1..n -> MemberDocs] : n \in 0..MaxMembers} :
          page_in = ClassDoc(<<"p">>, <<"T">>, "class", <<"D","o","c",".">>, <<>>, members, FALSE)
    /\ page_out = <<>>
    /\ NotPageIdle

RenderClassPage ==
    /\ pc = "page"
    /\ page_out' = render_class_page(page_in)
    /\ pc' = "rendered_page"
    /\ UNCHANGED <<page_in, notPage>>

NextPage == RenderClassPage
SpecPage == InitPage /\ [][NextPage]_vars

---------------------------------------------------------------------------
(* Claims about render_class_page.                                         *)

\* the indexes of the section and member headings among the lines of a page
HeadingIndexes(lines) ==
    SelectSeq([k \in DOMAIN lines |-> k],
              LAMBDA k : StartsWith(lines[k], <<"#","#"," ">>) \/ StartsWith(lines[k], <<"#","#","#"," ">>))
SectionKinds == <<"constant", "element", "field", "method">>
SectionTitle(kind) ==
    CASE kind = "constant" -> <<"#","#"," ","C","o","n","s","t","a","n","t","s">>
      [] kind = "element" -> <<"#","#"," ","A","n","n","o","t","a","t","i","o","n"," ","E","l","e","m","e","n","t","s">>
      [] kind = "field" -> <<"#","#"," ","F","i","e","l","d","s">>
      [] kind = "method" -> <<"#","#"," ","M","e","t","h","o","d","s">>
\* the headings that the claim expects for the members of a type: the kinds
\* in the order constant, element, field, method, a section for each kind
\* that has members, each member of the kind in the order of doc.members
ExpectedHeadings(members) ==
    LET Section(kind, group) ==
            IF group = <<>> THEN <<>>
            ELSE << [line |-> SectionTitle(kind), section |-> TRUE] >>
                 \o [k \in DOMAIN group |->
                       [line |-> <<"#","#","#"," ",BT>> \o group[k].name \o <<BT>>, section |-> FALSE,
                        member |-> group[k]]]
    IN  Concat([n \in DOMAIN SectionKinds |->
                  Section(SectionKinds[n],
                          SelectSeq(members, LAMBDA m : m.kind = SectionKinds[n]))])
\* the headings of the page are the expected ones
HeadingsFit(lines, at, expected) ==
    /\ Len(at) = Len(expected)
    /\ \A h \in DOMAIN at : lines[at[h]] = expected[h].line
\* under each member heading the page holds the signature block of the member
\* and the description of each member that Described says is to be there
ContentFits(lines, at, expected, Described(_, _)) ==
    \A h \in DOMAIN at :
       (h \in DOMAIN expected /\ ~expected[h].section)
         => LET Line(k) == IF at[h] + k \in DOMAIN lines THEN lines[at[h] + k] ELSE <<"(","n","o"," ","l","i","n","e",")">>
            IN  /\ Line(1) = <<>>
                /\ Line(2) = <<BT,BT,BT,"j","a","v","a">>
                /\ Line(3) = expected[h].member.signature
                /\ Line(4) = <<BT,BT,BT>>
                /\ Line(5) = <<>>
                /\ Described(expected, h) => Line(6) = expected[h].member.description
HasDescription(expected, h) == expected[h].member.description # <<>>
\* a description that the removal of the trailing separator leaves alone: the
\* member is not the last of its section, or its description is not the text
\* of a separator, or tags follow the description
HasKeptDescription(expected, h) ==
    /\ expected[h].member.description # <<>>
    /\ \/ ~(h = Len(expected) \/ expected[h + 1].section)
       \/ expected[h].member.description # <<"-","-","-">>
       \/ expected[h].member.tags # <<>>

\* C14: the sections of the page are in the order constant, element, field,
\* method, a section for each kind that has members, every member once in
\* the order of doc.members, and the page holds the content of every member
\* (its signature block and its description): the removal of the trailing
\* separator of a group removes none of it.
C14_MembersKeepOrderAndContent ==
    pc = "rendered_page"
      => LET Fits(lines, at, expected) ==
                 HeadingsFit(lines, at, expected) /\ ContentFits(lines, at, expected, HasDescription)
             Page(lines) == Fits(lines, HeadingIndexes(lines), ExpectedHeadings(page_in.members))
         IN  Page(SplitOn(page_out, NL))

\* C14, the part that holds: the sections and the members are in that order,
\* and every signature block and every description is on the page but the
\* description "---" of the last member of a section.
C14_OrderKeptAndOtherContent ==
    pc = "rendered_page"
      => LET Fits(lines, at, expected) ==
                 HeadingsFit(lines, at, expected) /\ ContentFits(lines, at, expected, HasKeptDescription)
             Page(lines) == Fits(lines, HeadingIndexes(lines), ExpectedHeadings(page_in.members))
         IN  Page(SplitOn(page_out, NL))

---------------------------------------------------------------------------
(* generate_nav_yaml, and what generate_docs writes for a list of retained *)
(* ClassDocs.                                                              *)

generate_nav_yaml(docs, out_dir_name) ==
    LET Leaf(pkg_slug, doc) ==
            <<" "," "," "," "," "," ","-"," ">> \o doc.name \o <<":"," ">> \o out_dir_name \o <<"/">> \o pkg_slug \o <<"/">>
            \o Lower(doc.name) \o <<".","m","d">>
        Types(pkg_slug, sorted) == [k \in DOMAIN sorted |-> Leaf(pkg_slug, sorted[k])]
        Short(parts) == parts[Len(parts)]
        Package(pkg) ==
            << <<" "," "," "," ","-"," ">> \o Short(SplitOn(pkg, ".")) \o <<":">>,
               <<" "," "," "," "," "," ","-"," ","O","v","e","r","v","i","e","w",":"," ">> \o out_dir_name \o <<"/">> \o PkgSlug(pkg) \o <<"/","i","n","d","e","x",".","m","d">> >>
            \o Types(PkgSlug(pkg),
                     SortedBy(DocsOfPackage(docs, pkg), LAMBDA a, b : StrLess(a.name, b.name)))
        Listing(pkgs) ==
            Join(<< <<" "," ","-"," ","A","P","I"," ","R","e","f","e","r","e","n","c","e",":">>,
                    <<" "," "," "," ","-"," ","O","v","e","r","v","i","e","w",":"," ">> \o out_dir_name \o <<"/","i","n","d","e","x",".","m","d">> >>
                 \o Concat([k \in DOMAIN pkgs |-> Package(pkgs[k])]),
                 <<NL>>)
        Keys(keys) == Listing(SortedSet({keys[k] : k \in DOMAIN keys}))
    IN  Keys(PackageKeys(docs))

\* generate_docs from "Write per-class pages" on: the directories and the
\* files under an out_dir that held nothing, for the retained all_docs
WrittenTree(docs) ==
    LET pages[i \in 0..Len(docs)] ==
            IF i = 0 THEN [dirs |-> Mkdir({}, <<>>), files |-> EmptyTree]
            ELSE [dirs |-> Mkdir(pages[i - 1].dirs, PkgDir(docs[i].package)),
                  files |-> WriteText(pages[i - 1].files, PagePath(docs[i]),
                                      render_class_page(docs[i]))]
        Indexed(keys) ==
            LET indexes[i \in 0..Len(keys)] ==
                    IF i = 0 THEN pages[Len(docs)]
                    ELSE [dirs |-> Mkdir(indexes[i - 1].dirs, PkgDir(keys[i])),
                          files |-> WriteText(indexes[i - 1].files, PkgDir(keys[i]) \o <<IndexName>>,
                                              render_package_index(keys[i], DocsOfPackage(docs, keys[i])))]
            IN  indexes[Len(keys)]
        Tree(tree) ==
            [dirs |-> tree.dirs,
             files |-> _write_dir_pages(tree.dirs,
                                        WriteText(tree.files, <<IndexName>>, render_api_index(docs)))]
    IN  Tree(Indexed(PackageKeys(docs)))

---------------------------------------------------------------------------
(* The listings and the files for one set of ClassDocs taken in two orders *)

NavPackages == << <<"p",".","q">>, <<>> >>
NavNames == << <<"F","o","o">>, <<"F","O","O">>, <<"B","a","r">> >>
\* the ClassDocs of the runs: the pairs (package, name) are distinct
NavDocs ==
    [k \in 1..(Len(NavPackages) * Len(NavNames)) |->
        ClassDoc(NavPackages[((k - 1) \div Len(NavNames)) + 1],
                 NavNames[((k - 1) % Len(NavNames)) + 1],
                 "class", <<"D","o","c",".">>, <<>>, <<>>, FALSE)]

\* the largest number of ClassDocs in all_docs
MaxDocs == 3

Chosen(picked) ==
    LET take[i \in 0..Len(NavDocs)] ==
            IF i = 0 THEN <<>>
            ELSE IF i \in picked THEN Append(take[i - 1], NavDocs[i]) ELSE take[i - 1]
    IN  take[Len(NavDocs)]
Reordered(docs) ==
    {[i \in DOMAIN docs |-> docs[f[i]]] :
        f \in {g \in [DOMAIN docs -> DOMAIN docs] : \A i, j \in DOMAIN docs : g[i] = g[j] => i = j}}

OutDirName == <<"a","p","i">>
Orders == {"first", "second"}

InitNav ==
    /\ pc = "nav"
    /\ \E picked \in {P \in SUBSET DOMAIN NavDocs : Cardinality(P) \in 1..MaxDocs} :
          \E other \in Reordered(Chosen(picked)) :
              nav_in = [first |-> Chosen(picked), second |-> other]
    /\ nav_out = [o \in Orders |-> <<>>]
    /\ NotNavIdle

\* generate_docs from the page loop on and generate_nav_yaml, as main runs
\* them, for all_docs in one of the two orders
Generate(order) ==
    LET Outputs(docs, keys) ==
            [tree |-> WrittenTree(docs),
             api |-> render_api_index(docs),
             packages |-> [pkg \in {keys[k] : k \in DOMAIN keys} |->
                              render_package_index(pkg, DocsOfPackage(docs, pkg))],
             nav |-> generate_nav_yaml(docs, OutDirName)]
    IN  /\ pc = "nav"
        /\ nav_out[order] = <<>>
        /\ nav_out' = [nav_out EXCEPT ![order] = Outputs(nav_in[order], PackageKeys(nav_in[order]))]
        /\ pc' = IF \A o \in Orders \ {order} : nav_out[o] # <<>> THEN "listed" ELSE "nav"
        /\ UNCHANGED <<nav_in, notNav>>

NextNav == \E order \in Orders : Generate(order)
SpecNav == InitNav /\ [][NextNav]_vars

---------------------------------------------------------------------------
(* Claims about generate_nav_yaml and about the order of all_docs          *)

\* the lines of a listing that name a type, and those that name a package
TypeLeaves(lines) ==
    SelectSeq(lines, LAMBDA l : StartsWith(l, <<" "," "," "," "," "," ","-"," ">>) /\ ~StartsWith(l, <<" "," "," "," "," "," ","-"," ","O","v","e","r","v","i","e","w",":"," ">>))
PackageHeads(lines) ==
    SelectSeq(lines, LAMBDA l : StartsWith(l, <<" "," "," "," ","-"," ">>) /\ ~StartsWith(l, <<" "," "," "," ","-"," ","O","v","e","r","v","i","e","w",":"," ">>))
\* the types in the order the listing is to have: packages in order, and
\* the types of a package in order of name
ListedTypes(docs) ==
    LET pkgs == SortedSet({docs[k].package : k \in DOMAIN docs})
    IN  Concat([k \in DOMAIN pkgs |->
                  SortedBy(SelectSeq(docs, LAMBDA d : d.package = pkgs[k]),
                           LAMBDA a, b : StrLess(a.name, b.name))])
ListedPackages(docs) ==
    LET pkgs == SortedSet({docs[k].package : k \in DOMAIN docs})
        Last(parts) == parts[Len(parts)]
    IN  [k \in DOMAIN pkgs |-> <<" "," "," "," ","-"," ">> \o Last(SplitOn(pkgs[k], ".")) \o <<":">>]
\* the leaf of a type that points at the file generate_docs writes for it
LeafOfPage(doc) ==
    <<" "," "," "," "," "," ","-"," ">> \o doc.name \o <<":"," ">> \o OutDirName \o <<"/">> \o Join(PagePath(doc), <<"/">>)
PackagesInOrder(lines, docs) == PackageHeads(lines) = ListedPackages(docs)
LeavesFit(leaves, types, Pointed(_)) ==
    /\ Len(leaves) = Len(types)
    /\ \A k \in DOMAIN types :
          /\ StartsWith(leaves[k], <<" "," "," "," "," "," ","-"," ">> \o types[k].name \o <<":"," ">>)
          /\ Pointed(types[k]) => leaves[k] = LeafOfPage(types[k])

\* C15: in the listing of generate_nav_yaml the packages are in alphabetical
\* order, the types of a package are in alphabetical order by name, and the
\* leaf of every type, of the empty package too, is out_dir_name, "/" and the
\* path below the output directory of the file generate_docs writes for it
C15_LeavesPointAtPages ==
    \A o \in Orders :
        nav_out[o] # <<>> =>
            /\ PackagesInOrder(SplitOn(nav_out[o].nav, NL), nav_in[o])
            /\ LeavesFit(TypeLeaves(SplitOn(nav_out[o].nav, NL)), ListedTypes(nav_in[o]),
                         LAMBDA d : TRUE)
            /\ \A d \in {nav_in[o][k] : k \in DOMAIN nav_in[o]} :
                  PagePath(d) \in DOMAIN nav_out[o].tree.files

\* C15, the part that holds: the order of the packages and of the types, and
\* the leaf of every type of a package with a name
C15_OrderedAndNamedPackagesPointAtPages ==
    \A o \in Orders :
        nav_out[o] # <<>> =>
            /\ PackagesInOrder(SplitOn(nav_out[o].nav, NL), nav_in[o])
            /\ LeavesFit(TypeLeaves(SplitOn(nav_out[o].nav, NL)), ListedTypes(nav_in[o]),
                         LAMBDA d : d.package # <<>>)
            /\ \A d \in {nav_in[o][k] : k \in DOMAIN nav_in[o]} :
                  PagePath(d) \in DOMAIN nav_out[o].tree.files

\* C16: for two orders of the same ClassDocs with pairwise distinct
\* (package, name), render_api_index, render_package_index of each package
\* and generate_nav_yaml give the same text, and generate_docs leaves the
\* same files with the same contents
C16_OrderOfDocsLeavesOutputsAlone ==
    pc = "listed" =>
        /\ nav_out["first"].api = nav_out["second"].api
        /\ nav_out["first"].packages = nav_out["second"].packages
        /\ nav_out["first"].nav = nav_out["second"].nav
        /\ nav_out["first"].tree = nav_out["second"].tree

\* C16, the part that holds: the three texts are the same in every pair of
\* orders, and so are the files when no two types share a page path
C16_TextsSameAndFilesOfDistinctPaths ==
    LET DistinctPaths(docs) ==
            \A i, j \in DOMAIN docs : PagePath(docs[i]) = PagePath(docs[j]) => i = j
    IN  pc = "listed" =>
            /\ nav_out["first"].api = nav_out["second"].api
            /\ nav_out["first"].packages = nav_out["second"].packages
            /\ nav_out["first"].nav = nav_out["second"].nav
            /\ DistinctPaths(nav_in["first"]) => nav_out["first"].tree = nav_out["second"].tree

===========================================================================
